---- MODULE Spec2Model ----
(***************************************************************************)
(* A model of the chart generator: the numeric tick planner, the series    *)
(* normaliser, the stacking aggregator, the legend/margin layout and the   *)
(* two orchestrators (renderLineChart, renderStackedAreaChart) together    *)
(* with the payload normalisation of generateChart.                        *)
(*                                                                         *)
(* Numbers.  Chart values and axis bounds are JavaScript numbers.  The     *)
(* model holds them in fixed point: an integer n stands for n / Unit.      *)
(* Timestamps and pixel sizes are whole numbers and are held unscaled.     *)
(* Values that JavaScript can hold but no integer can (NaN, +-Infinity)    *)
(* are carried by a class tag next to the integer.                         *)
(***************************************************************************)
EXTENDS Integers, Sequences, FiniteSets, TLC

VARIABLES
    req,      \* the call: who is called (renderer or generateChart) and the body
    pc,       \* position of the call: "call", "render", "layout", "domain",
              \* "assemble", "done", "failed"; "apply"/"applied" for a pure function
    payload,  \* the request object the renderer works on
    series,   \* normalizeSeries(request.series)
    layout,   \* dims, legendInfo and margin of the orchestrator
    geom,     \* layers/times/totals, yDomain, scale ranges, plotWidth, yTicks
    result,   \* what the call returned: the error thrown or the SVG produced
    args,     \* arguments of a pure function under test
    out       \* its return value

vars == <<req, pc, payload, series, layout, geom, result, args, out>>

----------------------------------------------------------------------------
(* Bounds of the model *)

MaxDomain == 4      \* numeric domains [a,b] are drawn from -MaxDomain..MaxDomain
MaxTickCount == 7   \* tick counts are drawn from 0..MaxTickCount
MaxValue == 2       \* point values are drawn from -1..MaxValue
MaxSeries == 3      \* requests carry up to MaxSeries series
MaxTime == 2        \* epoch milliseconds of the sorting requests are 0..MaxTime
MaxPoints == 3      \* the path builders are given up to MaxPoints points
MaxCalls == 3       \* a session makes up to MaxCalls render calls
MaxDay == 2000      \* Date objects hold instants up to MaxDay days from the epoch
PageLimit == 2      \* bucket.list returns up to PageLimit objects a page
MaxObjects == 3     \* the bucket holds up to MaxObjects objects at first
MaxPuts == 1        \* up to MaxPuts charts are saved
MaxClock == 1       \* the clock moves on up to MaxClock times
MaxRequests == 2    \* a session of the worker serves up to MaxRequests requests

\* Fixed-point resolution: the integer n stands for the number n / Unit.
Unit == 10 * 10

----------------------------------------------------------------------------
(* Arithmetic helpers *)

Abs(x) == IF x < 0 THEN -x ELSE x
Max2(a, b) == IF a >= b THEN a ELSE b
Min2(a, b) == IF a <= b THEN a ELSE b
Sign(x) == IF x > 0 THEN 1 ELSE IF x < 0 THEN -1 ELSE 0

SetMax(S) == CHOOSE x \in S : \A y \in S : y <= x
SetMin(S) == CHOOSE x \in S : \A y \in S : x <= y

RECURSIVE Pow10(_)
Pow10(k) == IF k <= 0 THEN 1 ELSE 10 * Pow10(k - 1)

\* Math.floor(a / b) and Math.ceil(a / b) of the exact quotient, b # 0
FloorQ(a, b) ==
    LET n == IF b < 0 THEN -a ELSE a
        d == Abs(b)
    IN  IF n >= 0 THEN n \div d ELSE -((-n + d - 1) \div d)

CeilQ(a, b) == -FloorQ(-a, b)

Range(s) == {s[i] : i \in 1..Len(s)}

RECURSIVE SeqSum(_)
SeqSum(s) == IF Len(s) = 0 THEN 0 ELSE s[1] + SeqSum(Tail(s))

\* An optional field of a request object: has = FALSE is undefined
None == [has |-> FALSE, val |-> 0]
Some(x) == [has |-> TRUE, val |-> x]
\* o ?? d
Coalesce(o, d) == IF o.has THEN o.val ELSE d

----------------------------------------------------------------------------
(* Tick planner, numeric branch (shared.ts) *)

\* Math.floor(Math.log10(n / d)) for n, d > 0
RECURSIVE FloorLog10(_, _)
FloorLog10(n, d) ==
    IF n >= 10 * d THEN 1 + FloorLog10(n, 10 * d)
    ELSE IF n < d THEN FloorLog10(10 * n, d) - 1
    ELSE 0

\* The mantissa as the smallest of 1, 2, 5, 10 that is >= error = n/d
StepMantissaCeil(n, d) ==
    IF n <= d THEN 1
    ELSE IF n <= 2 * d THEN 2
    ELSE IF n <= 5 * d THEN 5
    ELSE 10

\* The mantissa chosen from error = n/d in [1,10): the thresholds are
\* E10 = sqrt(50), E5 = sqrt(10), E2 = sqrt(2), compared by their squares.
StepMantissa(n, d) ==
    IF n * n >= 50 * d * d THEN 10
    ELSE IF n * n >= 10 * d * d THEN 5
    ELSE IF n * n >= 2 * d * d THEN 2
    ELSE 1

\* tickStep(start, stop, count); start, stop and the result in fixed point.
\* For start = stop the JavaScript result is 1 * 10 ** -Infinity = 0.
tickStep(start, stop, count) ==
    LET n == Abs(stop - start)
        d == Unit * Max2(1, count)          \* step0 = n / d
        power == FloorLog10(n, d)
        en == IF power < 0 THEN n * Pow10(-power) ELSE n
        ed == IF power > 0 THEN d * Pow10(power) ELSE d   \* error = en / ed
        m == StepMantissa(en, ed)
        mag == IF power >= 0 THEN m * Pow10(power) * Unit
               ELSE (m * Unit) \div Pow10(-power)
    IN  IF n = 0 THEN 0 ELSE mag * Sign(stop - start)

\* niceLinearDomain(domain, count)
niceLinearDomain(domain, count) ==
    LET start == domain[1]
        stop == domain[2]
        delta == Abs(IF start # 0 THEN start ELSE Unit)
        step == tickStep(start, stop, count)
    IN  IF start = stop THEN <<start - delta, stop + delta>>
        ELSE <<FloorQ(start, step) * step, CeilQ(stop, step) * step>>

\* linearTicks with startTick = floor(...) instead of ceil(...)
linearTicksFloorStart(domain, count) ==
    LET start == domain[1]
        stop == domain[2]
        step == tickStep(start, stop, count)
        startTick == FloorQ(Min2(start, stop), step)
        endTick == FloorQ(Max2(start, stop), step)
    IN  IF start = stop THEN <<start>>
        ELSE [k \in 1..Max2(0, endTick - startTick + 1) |-> (startTick + k - 1) * step]

\* linearTicks(domain, count)
linearTicks(domain, count) ==
    LET start == domain[1]
        stop == domain[2]
        step == tickStep(start, stop, count)
        startTick == CeilQ(Min2(start, stop), step)
        endTick == FloorQ(Max2(start, stop), step)
    IN  IF start = stop THEN <<start>>
        ELSE [k \in 1..Max2(0, endTick - startTick + 1) |-> (startTick + k - 1) * step]

\* computeYDomain without the widening of min === max
computeYDomainUnwidened(values, axis) ==
    LET dom == IF axis.has THEN axis.domain ELSE None
        min == IF dom.has THEN dom.val[1] ELSE SetMin(Range(values))
        max == IF dom.has THEN dom.val[2] ELSE SetMax(Range(values))
        nice == IF axis.has THEN Coalesce(axis.nice, TRUE) ELSE TRUE
        count == IF axis.has THEN Coalesce(axis.tickCount, 6) ELSE 6
    IN  IF Len(values) = 0 THEN <<0, Unit>>
        ELSE IF nice /\ min # max THEN niceLinearDomain(<<min, max>>, count)
        ELSE <<min, max>>

\* computeYDomain(values, axis): values in fixed point; axis is request.y,
\* with has = FALSE when request.y is undefined
computeYDomain(values, axis) ==
    LET dom == IF axis.has THEN axis.domain ELSE None
        min == IF dom.has THEN dom.val[1] ELSE SetMin(Range(values))
        max == IF dom.has THEN dom.val[2] ELSE SetMax(Range(values))
        delta == Abs(IF min # 0 THEN min ELSE Unit)
        nice == IF axis.has THEN Coalesce(axis.nice, TRUE) ELSE TRUE
        count == IF axis.has THEN Coalesce(axis.tickCount, 6) ELSE 6
    IN  IF Len(values) = 0 THEN <<0, Unit>>
        ELSE IF min = max THEN <<min - delta, max + delta>>
        ELSE IF nice THEN niceLinearDomain(<<min, max>>, count)
        ELSE <<min, max>>

----------------------------------------------------------------------------
(* Layout engine (shared.ts) *)

\* DEFAULT_MARGINS
DEFAULT_MARGINS == [top |-> 28, right |-> 20, bottom |-> 38, left |-> 52]

\* DEFAULT_COLORS, indexed from 0 as in the source
DEFAULT_COLORS ==
    <<"#2563eb", "#ef4444", "#10b981", "#f59e0b",
      "#8b5cf6", "#14b8a6", "#e11d48", "#0ea5e9">>

PaletteColor(idx) == DEFAULT_COLORS[(idx % Len(DEFAULT_COLORS)) + 1]

\* A request without a margin override
NoMargin == [top |-> None, right |-> None, bottom |-> None, left |-> None]

\* mergeMargins(custom): every side of custom is an optional number
mergeMargins(custom) ==
    [top    |-> Coalesce(custom.top, DEFAULT_MARGINS.top),
     right  |-> Coalesce(custom.right, DEFAULT_MARGINS.right),
     bottom |-> Coalesce(custom.bottom, DEFAULT_MARGINS.bottom),
     left   |-> Coalesce(custom.left, DEFAULT_MARGINS.left)]

\* A width or height as the caller wrote it: cls is "absent" (undefined),
\* "nan" (NaN for the renderer, a non-numeric value for generateChart) or
\* "fin", with val the number in fixed point.
AbsentSize == [cls |-> "absent", val |-> 0]
FinSize(px) == [cls |-> "fin", val |-> px * Unit]

\* Math.round of a fixed-point number, as a whole number
MathRound(v) == FloorQ(2 * v + Unit, 2 * Unit)

\* Math.round(size || dflt) without the Math.max(100, ...)
NormalSizeUnclamped(size, dflt) ==
    LET given == IF size.cls = "fin" /\ size.val # 0 THEN size.val ELSE dflt * Unit
    IN  FloorQ(2 * given + Unit, 2 * Unit)

\* Math.max(100, Math.round(size || dflt))
NormalSize(size, dflt) ==
    LET given == IF size.cls = "fin" /\ size.val # 0 THEN size.val ELSE dflt * Unit
    IN  Max2(100, MathRound(given))

\* normalizeDimensions(dimensions)
normalizeDimensions(dimensions) ==
    [width  |-> NormalSize(dimensions.width, 800),
     height |-> NormalSize(dimensions.height, 400),
     margin |-> mergeMargins(dimensions.margin)]

----------------------------------------------------------------------------
(* Series normaliser (line.ts, stacked-area.ts, shared.ts) *)

\* A time field as the caller wrote it: ty is "number", "string" or "date";
\* cls is the class of the number, of Date.parse(string) or of
\* date.getTime(): "fin", "nan", "inf" (+Infinity) or "ninf" (-Infinity);
\* ms is the epoch millisecond when cls = "fin".
\* parseDate(value): thrown = TRUE is the Error "Invalid date value".
parseDate(value) ==
    IF value.ty = "date" THEN [thrown |-> FALSE, cls |-> value.cls, ms |-> value.ms]
    ELSE IF value.cls = "nan" THEN [thrown |-> TRUE, cls |-> "nan", ms |-> 0]
    ELSE [thrown |-> FALSE, cls |-> value.cls, ms |-> value.ms]

\* A value field as the caller wrote it: ty is "number", "string", "null";
\* Number(v): a number is itself, a string is parsed, null is 0.
ToNumber(v) ==
    IF v.ty = "null" THEN [cls |-> "fin", n |-> 0]
    ELSE [cls |-> v.cls, n |-> v.n]

\* The comparator (a, b) => a.t - b.t is positive: NaN compares as 0
TimeAfter(a, b) ==
    IF a.tcls = "nan" \/ b.tcls = "nan" THEN FALSE
    ELSE IF a.tcls = "inf" THEN b.tcls # "inf"
    ELSE IF a.tcls = "ninf" THEN FALSE
    ELSE IF b.tcls = "ninf" THEN TRUE
    ELSE IF b.tcls = "inf" THEN FALSE
    ELSE a.t > b.t

\* Array.prototype.sort with that comparator: a stable sort
RECURSIVE SortInsert(_, _)
SortInsert(sorted, x) ==
    IF Len(sorted) = 0 THEN <<x>>
    ELSE IF TimeAfter(sorted[Len(sorted)], x)
         THEN Append(SortInsert(SubSeq(sorted, 1, Len(sorted) - 1), x), sorted[Len(sorted)])
         ELSE Append(sorted, x)

RECURSIVE SortByTime(_)
SortByTime(points) ==
    IF Len(points) = 0 THEN <<>>
    ELSE SortInsert(SortByTime(SubSeq(points, 1, Len(points) - 1)), points[Len(points)])

\* s.data.map(parse).filter(finite v).sort(by t)
ParsedPoints(data) ==
    LET parse(p) == [t |-> parseDate(p.t).ms, tcls |-> parseDate(p.t).cls,
                     v |-> ToNumber(p.v).n, vcls |-> ToNumber(p.v).cls]
        mapped == [i \in 1..Len(data) |-> parse(data[i])]
        finite(p) == p.vcls = "fin"
        kept == SelectSeq(mapped, finite)
    IN  SortByTime([i \in 1..Len(kept) |-> [t |-> kept[i].t, tcls |-> kept[i].tcls, v |-> kept[i].v]])

\* normalizeSeries without the final .filter: series with no point are kept
normalizeSeriesKeepEmpty(rawSeries) ==
    LET bad == \E i \in 1..Len(rawSeries) : \E j \in 1..Len(rawSeries[i].data) :
                   parseDate(rawSeries[i].data[j].t).thrown
        mapped == [i \in 1..Len(rawSeries) |->
                     [idx |-> i - 1,
                      id |-> rawSeries[i].id, name |-> rawSeries[i].name,
                      color |-> IF rawSeries[i].color # "" THEN rawSeries[i].color
                                ELSE PaletteColor(i - 1),
                      parsed |-> ParsedPoints(rawSeries[i].data)]]
    IN  [thrown |-> bad, series |-> IF bad THEN <<>> ELSE mapped]

\* normalizeSeries taking the palette entry by the position after the filter
normalizeSeriesColorAfterFilter(rawSeries) ==
    LET bad == \E i \in 1..Len(rawSeries) : \E j \in 1..Len(rawSeries[i].data) :
                   parseDate(rawSeries[i].data[j].t).thrown
        mapped == [i \in 1..Len(rawSeries) |->
                     [idx |-> i - 1,
                      id |-> rawSeries[i].id, name |-> rawSeries[i].name,
                      color |-> rawSeries[i].color,
                      parsed |-> ParsedPoints(rawSeries[i].data)]]
        nonEmpty(s) == Len(s.parsed) > 0
        kept == SelectSeq(mapped, nonEmpty)
    IN  [thrown |-> bad,
         series |-> IF bad THEN <<>>
                    ELSE [k \in 1..Len(kept) |->
                             [kept[k] EXCEPT !.color = IF @ # "" THEN @ ELSE PaletteColor(k - 1)]]]

\* normalizeSeries(series) of line.ts and of stacked-area.ts (the same code):
\* thrown = TRUE when parseDate threw on some point
normalizeSeries(rawSeries) ==
    LET bad == \E i \in 1..Len(rawSeries) : \E j \in 1..Len(rawSeries[i].data) :
                   parseDate(rawSeries[i].data[j].t).thrown
        mapped == [i \in 1..Len(rawSeries) |->
                     [idx |-> i - 1,
                      id |-> rawSeries[i].id, name |-> rawSeries[i].name,
                      color |-> IF rawSeries[i].color # "" THEN rawSeries[i].color
                                ELSE PaletteColor(i - 1),
                      parsed |-> ParsedPoints(rawSeries[i].data)]]
        nonEmpty(s) == Len(s.parsed) > 0
    IN  [thrown |-> bad, series |-> IF bad THEN <<>> ELSE SelectSeq(mapped, nonEmpty)]

----------------------------------------------------------------------------
(* Stacking aggregator (stacked-area.ts) *)

\* Array.from(set).sort((a, b) => a - b)
RECURSIVE SortedSeq(_)
SortedSeq(S) ==
    IF S = {} THEN <<>>
    ELSE LET m == SetMin(S) IN <<m>> \o SortedSeq(S \ {m})

\* The Map of a series: the last point written for t wins; missing is 0
ValueAt(parsed, t) ==
    LET at == {i \in 1..Len(parsed) : parsed[i].t = t}
    IN  IF at = {} THEN 0 ELSE parsed[SetMax(at)].v

\* totals after the first k series have been walked
RECURSIVE TotalsAfter(_, _, _)
TotalsAfter(ser, times, k) ==
    IF k = 0 THEN [i \in 1..Len(times) |-> 0]
    ELSE LET before == TotalsAfter(ser, times, k - 1)
         IN  [i \in 1..Len(times) |-> before[i] + ValueAt(ser[k].parsed, times[i])]

\* buildLayers where every layer starts from 0 instead of from the running total
buildLayersNoBase(ser) ==
    LET times == SortedSeq(UNION {{ser[k].parsed[i].t : i \in 1..Len(ser[k].parsed)} :
                                   k \in 1..Len(ser)})
        layer(k) ==
            [idx |-> ser[k].idx,
             points |-> [i \in 1..Len(times) |->
                 LET value == ValueAt(ser[k].parsed, times[i])
                 IN  [t |-> times[i], y0 |-> 0, y1 |-> value, value |-> value]]]
    IN  [layers |-> [k \in 1..Len(ser) |-> layer(k)],
         times |-> times,
         totals |-> TotalsAfter(ser, times, Len(ser))]

\* buildLayers(series): all timestamps finite
buildLayers(ser) ==
    LET times == SortedSeq(UNION {{ser[k].parsed[i].t : i \in 1..Len(ser[k].parsed)} :
                                   k \in 1..Len(ser)})
        layer(k) ==
            [idx |-> ser[k].idx,
             points |-> [i \in 1..Len(times) |->
                 LET base == TotalsAfter(ser, times, k - 1)[i]
                     value == ValueAt(ser[k].parsed, times[i])
                 IN  [t |-> times[i], y0 |-> base, y1 |-> base + value, value |-> value]]]
    IN  [layers |-> [k \in 1..Len(ser) |-> layer(k)],
         times |-> times,
         totals |-> TotalsAfter(ser, times, Len(ser))]

----------------------------------------------------------------------------
(* Legend reservation (line.ts, stacked-area.ts) *)

\* A request without legend options
NoLegend == [has |-> FALSE, show |-> None, position |-> None, fontSize |-> None]

\* renderLegend of line.ts: svg = TRUE is the <g data-legend> markup
renderLegendLine(ser, legend) ==
    LET show == IF legend.has THEN Coalesce(legend.show, Len(ser) > 1) ELSE Len(ser) > 1
        fontSize == IF legend.has THEN Coalesce(legend.fontSize, 12) ELSE 12
        verticalSpace == fontSize + 10
        position == IF legend.has THEN Coalesce(legend.position, "top") ELSE "top"
    IN  IF ~show THEN [svg |-> FALSE, reserved |-> 0]
        ELSE [svg |-> TRUE,
              reserved |-> verticalSpace + (IF position = "bottom" THEN 6 ELSE 0)]

\* renderLegend of stacked-area.ts: the position is not read
renderLegendArea(ser, legend) ==
    LET show == IF legend.has THEN Coalesce(legend.show, Len(ser) > 1) ELSE Len(ser) > 1
        fontSize == IF legend.has THEN Coalesce(legend.fontSize, 12) ELSE 12
        verticalSpace == fontSize + 10
    IN  IF ~show THEN [svg |-> FALSE, reserved |-> 0]
        ELSE [svg |-> TRUE, reserved |-> verticalSpace + 6]

\* The merged margin with the legend reservation left out of top
MarginWithoutLegend(margin, reserved) ==
    mergeMargins([top    |-> Some(margin.top),
                  right  |-> Some(margin.right),
                  bottom |-> Some(margin.bottom),
                  left   |-> Some(margin.left)])

\* mergeMargins({...dims.margin, top: dims.margin.top + (legendInfo.reserved || 0)})
MarginWithLegend(margin, reserved) ==
    mergeMargins([top    |-> Some(margin.top + reserved),
                  right  |-> Some(margin.right),
                  bottom |-> Some(margin.bottom),
                  left   |-> Some(margin.left)])

----------------------------------------------------------------------------
(* Payload normalisation of generateChart (chart-service.ts) *)

\* The body of a call.  seriesKey says whether the body has a "series" key
\* and whether its value is an array; legacyKey says the same of "lines"
\* (line route) or "areas" (stacked-area route); for a legacy body the
\* record dimensions holds options.width/height/margin and y.tickCount holds
\* options.yAxis.tickCount.
\* y is request.y and legend is request.legend, has = FALSE when undefined.
NoAxis == [has |-> FALSE, domain |-> None, nice |-> None, tickCount |-> None]
DefaultAxis == [has |-> TRUE, domain |-> None, nice |-> None, tickCount |-> None]

\* normalizeDimensionsInput(payload): error "InvalidDimensions" is
\* "dimensions.width and dimensions.height must be numbers"
normalizeDimensionsInput(dimensions) ==
    LET num(size, dflt) == IF size.cls = "absent" THEN FinSize(dflt) ELSE size
        width == num(dimensions.width, 800)
        height == num(dimensions.height, 400)
    IN  [error |-> IF width.cls # "fin" \/ height.cls # "fin" THEN "InvalidDimensions" ELSE "",
         dimensions |-> [width |-> width, height |-> height, margin |-> dimensions.margin]]

\* lines.map / areas.map of the legacy branch: points {x, y} become {t, v},
\* id is line.label ?? `series-${idx + 1}` (areas: `area-${idx + 1}`)
LegacySeries(kind, entries) ==
    [i \in 1..Len(entries) |->
        [id |-> IF entries[i].label # "" THEN entries[i].label
                ELSE (IF kind = "line" THEN "series-" ELSE "area-") \o ToString(i),
         name |-> entries[i].label,
         color |-> entries[i].color,
         data |-> IF entries[i].pointsIsArray
                  THEN [j \in 1..Len(entries[i].points) |->
                           [t |-> entries[i].points[j].x, v |-> entries[i].points[j].y]]
                  ELSE <<>>]]

\* The strings a caller may write into a request; "" is a field the caller
\* left out.  title, description: request.title/.description; xLabel, yLabel:
\* x.label, y.label; background: dimensions.background; gridColor: grid.color;
\* axisColor, tickColor, fontFamily: x.color, x.tickColor, x.fontFamily;
\* legendFontFamily: legend.fontFamily.
NoText ==
    [title |-> "", description |-> "", xLabel |-> "", yLabel |-> "", background |-> "",
     gridColor |-> "", axisColor |-> "", tickColor |-> "", fontFamily |-> "",
     legendFontFamily |-> ""]

\* The legacy branch keeps options.xAxis.label, options.yAxis.label and
\* options.background; it builds grid: {} and legend: {show} anew
LegacyText(text) ==
    [NoText EXCEPT !.xLabel = text.xLabel, !.yLabel = text.yLabel,
                   !.background = text.background]

\* The request built by the legacy branch of normalizeLinePayload/normalizeAreaPayload
LegacyPayload(kind, body) ==
    LET entries == IF body.legacyKey = "array" THEN body.legacy ELSE <<>>
        dims == normalizeDimensionsInput(body.dimensions)
        ser == LegacySeries(kind, entries)
    IN  IF Len(entries) = 0 THEN [error |-> "EmptyInput", payload |-> body]
        ELSE IF dims.error # "" THEN [error |-> dims.error, payload |-> body]
        ELSE [error |-> "",
              payload |-> [seriesKey |-> "array",
                           series |-> ser,
                           dimensions |-> dims.dimensions,
                           text |-> LegacyText(body.text),
                           y |-> [has |-> TRUE, domain |-> None, nice |-> None,
                                  tickCount |-> Some(Coalesce(body.y.tickCount, 6))],
                           legend |-> [has |-> TRUE, show |-> Some(Len(ser) > 1),
                                       position |-> None, fontSize |-> None]]]

\* The renderer's view of a body: the request object it is handed
RequestOf(body, dimensions) ==
    [seriesKey |-> body.seriesKey, series |-> body.series, dimensions |-> dimensions,
     text |-> body.text, y |-> body.y, legend |-> body.legend]

\* normalizeLinePayload(body)
normalizeLinePayload(body) ==
    LET dims == normalizeDimensionsInput(body.dimensions)
    IN  IF body.seriesKey = "absent" /\ body.legacyKey # "absent" THEN LegacyPayload("line", body)
        ELSE IF dims.error # "" THEN [error |-> dims.error, payload |-> body]
        ELSE IF body.seriesKey # "array" THEN [error |-> "EmptyInput", payload |-> body]
        ELSE IF ~body.y.has THEN [error |-> "MissingAxisConfig", payload |-> body]
        ELSE [error |-> "", payload |-> RequestOf(body, dims.dimensions)]

\* normalizeAreaPayload(body)
normalizeAreaPayload(body) ==
    LET dims == normalizeDimensionsInput(body.dimensions)
    IN  IF body.seriesKey = "absent" /\ body.legacyKey # "absent" THEN LegacyPayload("stacked-area", body)
        ELSE IF dims.error # "" THEN [error |-> dims.error, payload |-> body]
        ELSE IF body.seriesKey # "array" THEN [error |-> "EmptyInput", payload |-> body]
        ELSE [error |-> "", payload |-> RequestOf(body, dims.dimensions)]

----------------------------------------------------------------------------
(* Path builders and scales (shared.ts) *)

\* A path string is held as the sequence of its commands, "" as <<>>:
\* `${op}${x},${y}` is Cmd(op, x, y) and the closing " Z" is ClosePath
Cmd(op, x, y) == [op |-> op, x |-> x, y |-> y]
ClosePath == [op |-> "Z"]

Reverse(seq) == [i \in 1..Len(seq) |-> seq[Len(seq) + 1 - i]]

\* linePath(points): M for the first point, L for the others
linePath(points) ==
    IF Len(points) = 0 THEN <<>>
    ELSE [i \in 1..Len(points) |-> Cmd(IF i = 1 THEN "M" ELSE "L", points[i].x, points[i].y)]

\* areaPath whose lower boundary is written in forward order
areaPathForward(points) ==
    IF Len(points) = 0 THEN <<>>
    ELSE LET upper == [i \in 1..Len(points) |->
                          Cmd(IF i = 1 THEN "M" ELSE "L", points[i].x, points[i].y1)]
             lower == [i \in 1..Len(points) |-> Cmd("L", points[i].x, points[i].y0)]
         IN  upper \o lower \o <<ClosePath>>

\* areaPath(points): "" for no points, else `${upper} ${lower} Z`
areaPath(points) ==
    IF Len(points) = 0 THEN <<>>
    ELSE LET upper == [i \in 1..Len(points) |->
                          Cmd(IF i = 1 THEN "M" ELSE "L", points[i].x, points[i].y1)]
             reversed == Reverse(points)
             lower == [i \in 1..Len(reversed) |-> Cmd("L", reversed[i].x, reversed[i].y0)]
         IN  upper \o lower \o <<ClosePath>>

\* A pixel coordinate is held exactly, as the fraction num / den; den = 0
\* stands for a number that is not finite (a division by zero: NaN, +-Infinity)
Frac(num, den) == [num |-> num, den |-> den]
FiniteFrac(f) == f.den # 0
FracIs(f, n) == f.den # 0 /\ f.num = n * f.den

\* createLinearScale dividing by d1 - d0 whatever it is
createLinearScaleUnguarded(domain, range) ==
    [d0 |-> domain[1], r0 |-> range[1],
     num |-> range[2] - range[1], den |-> domain[2] - domain[1]]

\* createLinearScale(domain, range): m = (r1 - r0) / (d1 - d0 || 1), held as
\* num / den
createLinearScale(domain, range) ==
    [d0 |-> domain[1], r0 |-> range[1],
     num |-> range[2] - range[1],
     den |-> IF domain[2] - domain[1] # 0 THEN domain[2] - domain[1] ELSE 1]

createTimeScale(domain, range) == createLinearScale(domain, range)

\* The returned closure: value => r0 + (value - d0) * m
ScaleValue(scale, value) ==
    Frac(scale.r0 * scale.den + (value - scale.d0) * scale.num, scale.den)

\* renderLineChart, seriesPaths: one <path d stroke> per series.  path is the
\* d attribute and stroke the outline drawn over an area; d is not held for a
\* render whose timestamps are not all finite (its coordinates are NaN).
LinePaths(ser, g) ==
    LET xScale == createTimeScale(<<g.xMin, g.xMax>>, g.scale.xRange)
        yScale == createLinearScale(g.yDomain, g.scale.yRange)
    IN  [k \in 1..Len(ser) |->
            LET coords == [i \in 1..Len(ser[k].parsed) |->
                              [x |-> ScaleValue(xScale, ser[k].parsed[i].t),
                               y |-> ScaleValue(yScale, ser[k].parsed[i].v * Unit)]]
            IN  [color |-> ser[k].color, finite |-> g.finite,
                 path |-> IF g.finite THEN linePath(coords) ELSE <<>>,
                 stroke |-> <<>>]]

\* renderStackedAreaChart, areas: per layer <path d fill> and the stroke
\* <path d stroke> over its top boundary
AreaPaths(ser, g) ==
    LET xScale == createTimeScale(<<g.xMin, g.xMax>>, g.scale.xRange)
        yScale == createLinearScale(g.yDomain, g.scale.yRange)
    IN  [k \in 1..Len(ser) |->
            IF ~g.finite
            THEN [color |-> ser[k].color, finite |-> FALSE, path |-> <<>>, stroke |-> <<>>]
            ELSE LET points == [i \in 1..Len(g.layers[k].points) |->
                                   [x |-> ScaleValue(xScale, g.layers[k].points[i].t),
                                    y0 |-> ScaleValue(yScale, g.layers[k].points[i].y0 * Unit),
                                    y1 |-> ScaleValue(yScale, g.layers[k].points[i].y1 * Unit)]]
                 IN  [color |-> ser[k].color, finite |-> TRUE,
                      path |-> areaPath(points),
                      stroke |-> linePath([i \in 1..Len(points) |->
                                              [x |-> points[i].x, y |-> points[i].y1]])]]

----------------------------------------------------------------------------
(* Markup (shared.ts, line.ts, stacked-area.ts) *)

\* str.replace(/ch/g, rep) for a one-character ch
RECURSIVE ReplaceAll(_, _, _)
ReplaceAll(str, ch, rep) ==
    IF str = "" THEN ""
    ELSE (IF Head(str) = ch THEN rep ELSE Head(str)) \o ReplaceAll(Tail(str), ch, rep)

\* escapeXml(text): & first, then < > " '
escapeXml(text) ==
    ReplaceAll(ReplaceAll(ReplaceAll(ReplaceAll(ReplaceAll(text,
        "&", "&amp;"), "<", "&lt;"), ">", "&gt;"), "\"", "&quot;"), "'", "&apos;")

\* value ?? dflt for an optional string
OrDefault(str, dflt) == IF str # "" THEN str ELSE dflt

\* renderLegend, items: per series the swatch <rect fill> and the
\* <text font-family>label</text>; no item when the legend is not shown
LegendItems(ser, text, shown) ==
    IF ~shown THEN <<>>
    ELSE [k \in 1..Len(ser) |->
            [fill |-> IF ser[k].color # "" THEN ser[k].color ELSE PaletteColor(k - 1),
             fontFamily |-> OrDefault(text.legendFontFamily, "Inter, system-ui, sans-serif"),
             label |-> escapeXml(OrDefault(ser[k].name, ser[k].id))]]

\* The places of the svg holding a string of the request, each with the text
\* the orchestrator writes there.  xLabel and yLabel are "" when the <text>
\* element is left out, gridColor when no grid line is drawn.
Markup(kind, request, ser, g, lay) ==
    LET text == request.text
        title == OrDefault(text.title, IF kind = "line" THEN "Line chart" ELSE "Stacked area chart")
        desc == OrDefault(text.description,
                          IF kind = "line" THEN "SVG line chart" ELSE "SVG stacked area chart")
    IN  [ariaLabel |-> escapeXml(title),
         title |-> escapeXml(title),
         desc |-> escapeXml(desc),
         background |-> OrDefault(text.background, "#ffffff"),
         gridColor |-> IF Len(g.yTicks) > 0 THEN OrDefault(text.gridColor, "#e5e7eb") ELSE "",
         axisColor |-> OrDefault(text.axisColor, "#111827"),
         tickColor |-> OrDefault(text.tickColor, "#111827"),
         fontFamily |-> OrDefault(text.fontFamily, "Inter, system-ui, sans-serif"),
         xLabel |-> IF text.xLabel # "" THEN escapeXml(text.xLabel) ELSE "",
         yLabel |-> IF request.y.has /\ text.yLabel # "" THEN escapeXml(text.yLabel) ELSE "",
         legend |-> LegendItems(ser, text, lay.legendInfo.svg)]

----------------------------------------------------------------------------
(* The calls *)

NoResult == [kind |-> "none", error |-> "", legend |-> FALSE, width |-> 0, height |-> 0]
Thrown(e) == [kind |-> "error", error |-> e, legend |-> FALSE, width |-> 0, height |-> 0]

Fail(e) ==
    /\ pc' = "failed"
    /\ result' = Thrown(e)

\* renderLineChart(request) / renderStackedAreaChart(request) called directly
CallRenderer ==
    /\ pc = "call"
    /\ req.via = "direct"
    /\ payload' = RequestOf(req.body, req.body.dimensions)
    /\ pc' = "render"
    /\ UNCHANGED <<req, series, layout, geom, result, args, out>>

\* generateChart(chartType, body) up to the call of the renderer
GenerateChart ==
    /\ pc = "call"
    /\ req.via = "service"
    /\ LET n == IF req.kind = "line" THEN normalizeLinePayload(req.body)
                ELSE normalizeAreaPayload(req.body)
       IN  IF n.error # ""
           THEN Fail(n.error) /\ UNCHANGED payload
           ELSE pc' = "render" /\ payload' = n.payload /\ UNCHANGED result
    /\ UNCHANGED <<req, series, layout, geom, args, out>>

\* The head of an orchestrator without its first check (Array.isArray, length)
ValidateSeriesUnchecked(request) ==
    LET n == normalizeSeries(request.series)
    IN  IF n.thrown THEN [error |-> "InvalidDate", series |-> <<>>]
        ELSE IF Len(n.series) = 0 THEN [error |-> "NoValidPoints", series |-> <<>>]
        ELSE [error |-> "", series |-> n.series]

\* The head of both orchestrators: the check of request.series
\* ("A non-empty series array is required."), normalizeSeries, whose
\* parseDate may throw, and the check that a series is left
\* ("No valid data points found in series.")
ValidateSeries(request) ==
    LET n == normalizeSeries(request.series)
    IN  IF request.seriesKey # "array" \/ Len(request.series) = 0
        THEN [error |-> "EmptyInput", series |-> <<>>]
        ELSE IF n.thrown THEN [error |-> "InvalidDate", series |-> <<>>]
        ELSE IF Len(n.series) = 0 THEN [error |-> "NoValidPoints", series |-> <<>>]
        ELSE [error |-> "", series |-> n.series]

\* normalizeSeries sorting s.data itself instead of the mapped copy
DataSortedInPlace(data) ==
    LET keyed == [i \in 1..Len(data) |->
                     [t |-> parseDate(data[i].t).ms, tcls |-> parseDate(data[i].t).cls,
                      raw |-> data[i]]]
        sorted == SortByTime(keyed)
    IN  [i \in 1..Len(sorted) |-> sorted[i].raw]

\* s.data of the caller's series once normalizeSeries has run: map and
\* filter return new arrays and sort works on those, s.data is as written
DataAfterNormalize(data) == data

\* The caller's series array once normalizeSeries has run
SeriesAfterNormalize(rawSeries) ==
    [i \in 1..Len(rawSeries) |-> [rawSeries[i] EXCEPT !.data = DataAfterNormalize(@)]]

\* Both orchestrators up to the normalized series.  request.series is the
\* caller's array (generateChart spreads the body, the legacy branch alone
\* builds new series), so what normalizeSeries did to it shows in the body.
RenderValidate ==
    /\ pc = "render"
    /\ LET v == ValidateSeries(payload)
       IN  IF v.error # ""
           THEN Fail(v.error) /\ UNCHANGED series
           ELSE pc' = "layout" /\ series' = v.series /\ UNCHANGED result
    /\ LET reached == payload.seriesKey = "array" /\ Len(payload.series) > 0
       IN  /\ payload' = IF reached
                         THEN [payload EXCEPT !.series = SeriesAfterNormalize(@)]
                         ELSE payload
           /\ req' = IF reached /\ req.body.seriesKey = "array"
                     THEN [req EXCEPT !.body.series = SeriesAfterNormalize(@)]
                     ELSE req
    /\ UNCHANGED <<layout, geom, args, out>>

\* Both orchestrators: normalizeDimensions, renderLegend, the merged margin
RenderLayout ==
    /\ pc = "layout"
    /\ LET dims == normalizeDimensions(payload.dimensions)
           legendInfo == IF req.kind = "line" THEN renderLegendLine(series, payload.legend)
                         ELSE renderLegendArea(series, payload.legend)
       IN  layout' = [width |-> dims.width, height |-> dims.height,
                      dimsMargin |-> dims.margin, legendInfo |-> legendInfo,
                      margin |-> MarginWithLegend(dims.margin, legendInfo.reserved)]
    /\ pc' = "domain"
    /\ UNCHANGED <<req, payload, series, geom, result, args, out>>

\* Every parsed timestamp is a finite number
AllFinite(ser) == \A k \in 1..Len(ser) : \A i \in 1..Len(ser[k].parsed) : ser[k].parsed[i].tcls = "fin"
SomeTime(ser, cls) == \E k \in 1..Len(ser) : \E i \in 1..Len(ser[k].parsed) : ser[k].parsed[i].tcls = cls

\* With a finite xMin and xMax = +Infinity the loop of timeTicks runs to the
\* end of the Date range; whether the render survives it depends on the unit.
LongTickLoop(ser) == SomeTime(ser, "fin") /\ SomeTime(ser, "inf") /\ ~SomeTime(ser, "ninf")

\* The scale ranges and the plot width of both orchestrators
ScaleGeometry(lay) ==
    [xRange |-> <<lay.margin.left, lay.width - lay.margin.right>>,
     yRange |-> <<lay.height - lay.margin.bottom, lay.margin.top>>,
     plotWidth |-> lay.width - lay.margin.left - lay.margin.right,
     plotHeight |-> lay.height - lay.margin.top - lay.margin.bottom]

\* renderLineChart: allTimes/allValues, xMin/xMax, yDomain, scales, yTicks
LineGeometry(ser, request, lay) ==
    LET allTimes == UNION {{ser[k].parsed[i].t : i \in 1..Len(ser[k].parsed)} : k \in 1..Len(ser)}
        allValues == UNION {{ser[k].parsed[i].v * Unit : i \in 1..Len(ser[k].parsed)} : k \in 1..Len(ser)}
        yDomain == computeYDomain(SortedSeq(allValues), request.y)
    IN  [finite |-> TRUE, layers |-> <<>>, times |-> SortedSeq(allTimes), totals |-> <<>>,
         xMin |-> SetMin(allTimes), xMax |-> SetMax(allTimes),
         yDomain |-> yDomain, scale |-> ScaleGeometry(lay),
         yTicks |-> linearTicks(yDomain, Coalesce(request.y.tickCount, 6))]

\* renderStackedAreaChart: buildLayers, xMin/xMax, yMax, yDomain, scales, yTicks
AreaGeometry(ser, request, lay) ==
    LET built == buildLayers(ser)
        yMax == SetMax(Range(built.totals))
        yDomain == computeYDomain(<<0, yMax * Unit>>, request.y)
    IN  [finite |-> TRUE, layers |-> built.layers, times |-> built.times, totals |-> built.totals,
         xMin |-> built.times[1], xMax |-> built.times[Len(built.times)],
         yDomain |-> yDomain, scale |-> ScaleGeometry(lay),
         yTicks |-> linearTicks(yDomain, Coalesce(request.y.tickCount, 6))]

\* The geometry of a render some of whose timestamps are NaN or infinite:
\* coordinates are NaN, nothing throws
NonFiniteGeometry(lay) ==
    [finite |-> FALSE, layers |-> <<>>, times |-> <<>>, totals |-> <<>>,
     xMin |-> 0, xMax |-> 0, yDomain |-> <<0, 0>>, scale |-> ScaleGeometry(lay),
     yTicks |-> <<>>]

\* Both orchestrators from the scales to the ticks.  renderLineChart reads
\* request.y.tickCount: a TypeError when request.y is undefined.
RenderDomain ==
    /\ pc = "domain"
    /\ \E survives \in (IF LongTickLoop(series) THEN {TRUE, FALSE} ELSE {TRUE}) :
          IF ~survives THEN Fail("ResourceError") /\ UNCHANGED geom
          ELSE IF req.kind = "line" /\ ~payload.y.has THEN Fail("TypeError") /\ UNCHANGED geom
          ELSE /\ pc' = "assemble"
               /\ geom' = IF ~AllFinite(series) THEN NonFiniteGeometry(layout)
                          ELSE IF req.kind = "line" THEN LineGeometry(series, payload, layout)
                          ELSE AreaGeometry(series, payload, layout)
               /\ UNCHANGED result
    /\ UNCHANGED <<req, payload, series, layout, args, out>>

\* The root element of the markup: <svg width="${width}" height="${height}"
\* viewBox="0 0 ${width} ${height}" ...>
SvgRoot(width, height) ==
    [width |-> width, height |-> height, viewBox |-> <<0, 0, width, height>>]

\* return { svg, width, height }: root is the root element of svg, legend
\* says whether svg holds the <g data-legend> group
Response(kind, request, ser, g, lay) ==
    [kind |-> "svg", error |-> "", legend |-> lay.legendInfo.svg,
     width |-> lay.width, height |-> lay.height,
     root |-> SvgRoot(lay.width, lay.height),
     paths |-> IF kind = "line" THEN LinePaths(ser, g) ELSE AreaPaths(ser, g),
     markup |-> Markup(kind, request, ser, g, lay)]

\* Both orchestrators: the markup is joined and {svg, width, height} returned
RenderAssemble ==
    /\ pc = "assemble"
    /\ \E survives \in (IF LongTickLoop(series) THEN {TRUE, FALSE} ELSE {TRUE}) :
          IF ~survives THEN Fail("ResourceError")
          ELSE /\ pc' = "done"
               /\ result' = Response(req.kind, payload, series, geom, layout)
    /\ UNCHANGED <<req, payload, series, layout, geom, args, out>>

NextRender == CallRenderer \/ GenerateChart \/ RenderValidate \/ RenderLayout
                \/ RenderDomain \/ RenderAssemble

----------------------------------------------------------------------------
(* Specification SpecTicks: linearTicks applied to a numeric domain *)

\* Values of the variables a specification does not use
NoCall == [via |-> "none"]
NoPayload == [kind |-> "none"]
NoLayout == [width |-> 0]
NoGeom == [times |-> <<>>]

\* Domain bounds: the whole and half numbers of -MaxDomain..MaxDomain
DomainBounds == {k * (Unit \div 2) : k \in (-2 * MaxDomain)..(2 * MaxDomain)}

InitTicks ==
    /\ pc = "apply"
    /\ args \in [a : DomainBounds, b : DomainBounds, n : 0..MaxTickCount]
    /\ out = <<>>
    /\ req = NoCall
    /\ payload = NoPayload
    /\ series = <<>>
    /\ layout = NoLayout
    /\ geom = NoGeom
    /\ result = NoResult

ApplyLinearTicks ==
    /\ pc = "apply"
    /\ pc' = "applied"
    /\ out' = [step |-> tickStep(args.a, args.b, args.n),
               ticks |-> linearTicks(<<args.a, args.b>>, args.n)]
    /\ UNCHANGED <<req, payload, series, layout, geom, result, args>>

NextTicks == ApplyLinearTicks

SpecTicks == InitTicks /\ [][NextTicks]_vars

----------------------------------------------------------------------------
(* Requests *)

SeqsUpTo(S, n) == UNION {[1..k -> S] : k \in 0..n}
SeqsOf(S, n) == [1..n -> S]

\* A point {t: <epoch number>, v: <number>}
NumTime(ms) == [ty |-> "number", cls |-> "fin", ms |-> ms]
NumValue(n) == [ty |-> "number", cls |-> "fin", n |-> n]
Point(ms, n) == [t |-> NumTime(ms), v |-> NumValue(n)]

\* A series {id, data}: no name, no color
RawSeries(data) == [id |-> "s", name |-> "", color |-> "", data |-> data]

DefaultDimensions == [width |-> FinSize(800), height |-> FinSize(400), margin |-> NoMargin]

\* A body {dimensions, x, y, series, legend} without legacy keys
SeriesBody(ser, dimensions, y, legend) ==
    [seriesKey |-> "array", series |-> ser, legacyKey |-> "absent", legacy |-> <<>>,
     dimensions |-> dimensions, text |-> NoText, y |-> y, legend |-> legend]

Call(via, kind, body) == [via |-> via, kind |-> kind, body |-> body]

InitRender(calls) ==
    /\ pc = "call"
    /\ req \in calls
    /\ payload = NoPayload
    /\ series = <<>>
    /\ layout = NoLayout
    /\ geom = NoGeom
    /\ result = NoResult
    /\ args = <<>>
    /\ out = <<>>

----------------------------------------------------------------------------
(* Specification SpecStack: stacked-area requests over a two-instant timeline *)

StackValues == (-1)..MaxValue

\* The data of a series as a choice, per instant 0 and 1, of a value or of no
\* point (None), written in ascending time order
StackData(values) ==
    LET choices == {Some(v) : v \in values} \cup {None}
    IN  {(IF c0.has THEN <<Point(0, c0.val)>> ELSE <<>>) \o
         (IF c1.has THEN <<Point(1, c1.val)>> ELSE <<>>) :
            c0 \in choices, c1 \in choices}

\* Data written out of order or with a repeated instant
StackDataUnsorted ==
    {<<Point(t1, v1), Point(t2, v2)>> : t1 \in {0, 1}, t2 \in {0, 1}, v1 \in {1, 2}, v2 \in {1, 2}}

StackAxes ==
    {NoAxis, DefaultAxis,
     [has |-> TRUE, domain |-> None, nice |-> Some(FALSE), tickCount |-> None],
     [has |-> TRUE, domain |-> None, nice |-> None, tickCount |-> Some(3)],
     [has |-> TRUE, domain |-> Some(<<-Unit, 4 * Unit>>), nice |-> None, tickCount |-> None]}

StackCalls ==
    {Call(via, "stacked-area", SeriesBody(ser, DefaultDimensions, y, NoLegend)) :
        via \in {"direct", "service"},
        ser \in {[i \in 1..Len(d) |-> RawSeries(d[i])] : d \in SeqsUpTo(StackData(StackValues), 2)} \ {<<>>},
        y \in StackAxes}
    \cup
    {Call("direct", "stacked-area", SeriesBody(ser, DefaultDimensions, NoAxis, NoLegend)) :
        ser \in {[i \in 1..MaxSeries |-> RawSeries(d[i])] :
                    d \in SeqsOf(StackData({0, MaxValue}) \ {<<>>}, MaxSeries)}}
    \cup
    {Call("direct", "stacked-area", SeriesBody(ser, DefaultDimensions, NoAxis, NoLegend)) :
        ser \in {[i \in 1..Len(d) |-> RawSeries(d[i])] : d \in SeqsUpTo(StackDataUnsorted, 2)} \ {<<>>}}

InitStack == InitRender(StackCalls)

SpecStack == InitStack /\ [][NextRender]_vars

----------------------------------------------------------------------------
(* Specification SpecLayout: legend options, size and margin overrides *)

\* Series lists of 1..MaxSeries series, each with one point or with no point
LayoutSeries ==
    {[i \in 1..Len(f) |-> RawSeries(IF f[i] THEN <<Point(i, 1)>> ELSE <<>>)] :
        f \in SeqsUpTo(BOOLEAN, MaxSeries)} \ {<<>>}

FontSizes == {0, 9, 40}

LayoutLegends ==
    {NoLegend} \cup
    [has : {TRUE},
     show : {None, Some(TRUE), Some(FALSE)},
     position : {None, Some("top"), Some("bottom")},
     fontSize : {None} \cup {Some(f) : f \in FontSizes}]

LayoutDimensions ==
    {[width |-> size[1], height |-> size[2], margin |-> m] :
        size \in {<<AbsentSize, AbsentSize>>, <<FinSize(100), FinSize(100)>>},
        m \in {NoMargin,
               [NoMargin EXCEPT !.top = Some(0)],
               [NoMargin EXCEPT !.left = Some(60), !.right = Some(60)]}}

LayoutCalls ==
    {Call("direct", kind, SeriesBody(ser, dims, DefaultAxis, legend)) :
        kind \in {"line", "stacked-area"}, ser \in LayoutSeries,
        dims \in LayoutDimensions, legend \in LayoutLegends}
    \cup
    {Call("service", kind, SeriesBody(ser, DefaultDimensions, DefaultAxis, legend)) :
        kind \in {"line", "stacked-area"}, ser \in LayoutSeries, legend \in LayoutLegends}

InitLayout == InitRender(LayoutCalls)

SpecLayout == InitLayout /\ [][NextRender]_vars

----------------------------------------------------------------------------
(* Specification SpecValidate: malformed bodies, time fields and values *)

\* Time fields: numbers, strings and Date objects, finite or not
GoodTimes ==
    {NumTime(0), NumTime(1),
     [ty |-> "string", cls |-> "fin", ms |-> 2],
     [ty |-> "date", cls |-> "fin", ms |-> 1]}
BadTimes ==
    {[ty |-> "number", cls |-> "nan", ms |-> 0],
     [ty |-> "number", cls |-> "inf", ms |-> 0],
     [ty |-> "number", cls |-> "ninf", ms |-> 0],
     [ty |-> "string", cls |-> "nan", ms |-> 0],
     [ty |-> "date", cls |-> "nan", ms |-> 0]}

\* Value fields: a number, NaN, and null
NaNValue == [ty |-> "number", cls |-> "nonfin", n |-> 0]
NullValue == [ty |-> "null", cls |-> "fin", n |-> 0]
SomeValues == {NumValue(1), NaNValue, NullValue}

NonNumericSize == [cls |-> "nan", val |-> 0]

\* A legacy entry {label, color, points}
LegacyEntry(points) == [label |-> "", color |-> "", pointsIsArray |-> TRUE, points |-> points]
LegacyEntryNoPoints == [label |-> "", color |-> "", pointsIsArray |-> FALSE, points |-> <<>>]
LegacyPoint(ms, n) == [x |-> NumTime(ms), y |-> NumValue(n)]

\* Bodies with and without "series", "lines"/"areas", numeric sizes and y
ShapeBodies ==
    {[seriesKey |-> sk[1], series |-> sk[2], legacyKey |-> lk[1], legacy |-> lk[2],
      dimensions |-> dims, text |-> NoText, y |-> y, legend |-> NoLegend] :
        sk \in {<<"absent", <<>>>>, <<"nonarray", <<>>>>, <<"array", <<>>>>,
                <<"array", <<RawSeries(<<Point(0, 1)>>)>>>>},
        lk \in {<<"absent", <<>>>>, <<"nonarray", <<>>>>, <<"array", <<>>>>,
                <<"array", <<LegacyEntry(<<LegacyPoint(0, 1)>>)>>>>,
                <<"array", <<LegacyEntryNoPoints>>>>,
                <<"array", <<LegacyEntry(<<LegacyPoint(1, 1)>>), LegacyEntry(<<LegacyPoint(0, 2)>>)>>>>},
        dims \in {DefaultDimensions,
                  [DefaultDimensions EXCEPT !.width = AbsentSize, !.height = AbsentSize],
                  [DefaultDimensions EXCEPT !.width = NonNumericSize]},
        y \in {NoAxis, DefaultAxis}}

\* Series whose points have every kind of time field and value
FieldSeries ==
    {<<RawSeries(d)>> :
        d \in (SeqsUpTo([t : GoodTimes \cup BadTimes, v : SomeValues], 2) \ {<<>>})}
    \cup
    {<<RawSeries(<<[t |-> t1, v |-> NumValue(1)]>>), RawSeries(<<[t |-> t2, v |-> NumValue(2)]>>)>> :
        t1 \in GoodTimes \cup BadTimes, t2 \in GoodTimes \cup BadTimes}

\* Series that are dropped, kept, unsorted, or hold points that are dropped
DropChoices ==
    {<<>>,
     <<[t |-> NumTime(0), v |-> NaNValue]>>,
     <<Point(1, 1)>>,
     <<Point(2, 1), Point(0, 2)>>,
     <<[t |-> NumTime(1), v |-> NaNValue], [t |-> [ty |-> "string", cls |-> "fin", ms |-> 0], v |-> NullValue]>>,
     <<Point(1, 1), Point(1, 2)>>}

DropSeries ==
    ({[i \in 1..Len(d) |-> RawSeries(d[i])] : d \in SeqsUpTo(DropChoices, MaxSeries)} \ {<<>>})
    \cup
    {<<RawSeries(<<Point(t[1], 1), Point(t[2], 2), Point(t[3], 3)>>)>> : t \in SeqsOf(0..MaxTime, 3)}

ValidateCalls ==
    {Call(via, kind, body) :
        via \in {"direct", "service"}, kind \in {"line", "stacked-area"}, body \in ShapeBodies}
    \cup
    {Call(via, kind, SeriesBody(ser, DefaultDimensions, DefaultAxis, NoLegend)) :
        via \in {"direct", "service"}, kind \in {"line", "stacked-area"},
        ser \in FieldSeries \cup DropSeries}
    \cup
    {Call(via, "line", SeriesBody(ser, DefaultDimensions, NoAxis, NoLegend)) :
        via \in {"direct", "service"}, ser \in DropSeries}

InitValidate == InitRender(ValidateCalls)

SpecValidate == InitValidate /\ [][NextRender]_vars

----------------------------------------------------------------------------
(* Specification SpecSize: requested widths and heights *)

\* Requested sizes in fixed point: absent, non-numeric/NaN, zero, negative,
\* below 100, halves that round up and fractions that round down
SizeValues == {0, -5 * Unit, 99 * Unit + 49, 99 * Unit + 50, 100 * Unit + 50,
               150 * Unit + 49, 800 * Unit}
SizeChoices == {AbsentSize, NonNumericSize} \cup {[cls |-> "fin", val |-> v] : v \in SizeValues}

SizeCalls ==
    {Call(via, kind,
          SeriesBody(<<RawSeries(<<Point(0, 1)>>)>>,
                     [width |-> w, height |-> h, margin |-> NoMargin], DefaultAxis, NoLegend)) :
        via \in {"direct", "service"}, kind \in {"line", "stacked-area"},
        w \in SizeChoices, h \in SizeChoices}

InitSize == InitRender(SizeCalls)

SpecSize == InitSize /\ [][NextRender]_vars

----------------------------------------------------------------------------
(* Tick planner, time branch (shared.ts) *)

\* Epoch milliseconds and their products do not fit the integers of the
\* checker.  A span in milliseconds is a natural number written in limbs of
\* four decimal digits, least significant first, and the score arithmetic of
\* chooseTimeInterval is carried out exactly on such numbers.
Limb == 100 * 100

RECURSIVE Big(_)
Big(n) == IF n = 0 THEN <<>> ELSE <<n % Limb>> \o Big(n \div Limb)

RECURSIVE BigNorm(_)
BigNorm(a) ==
    IF Len(a) > 0 /\ a[Len(a)] = 0 THEN BigNorm(SubSeq(a, 1, Len(a) - 1)) ELSE a

RECURSIVE BigAddCarry(_, _, _)
BigAddCarry(a, b, carry) ==
    IF Len(a) = 0 /\ Len(b) = 0 THEN (IF carry = 0 THEN <<>> ELSE <<carry>>)
    ELSE LET x == (IF Len(a) > 0 THEN a[1] ELSE 0) + (IF Len(b) > 0 THEN b[1] ELSE 0) + carry
         IN  <<x % Limb>> \o BigAddCarry(IF Len(a) > 0 THEN Tail(a) ELSE a,
                                         IF Len(b) > 0 THEN Tail(b) ELSE b, x \div Limb)
BigAdd(a, b) == BigAddCarry(a, b, 0)

\* a * k for one limb k
RECURSIVE BigMulLimb(_, _, _)
BigMulLimb(a, k, carry) ==
    IF Len(a) = 0 THEN (IF carry = 0 THEN <<>> ELSE <<carry>>)
    ELSE LET x == a[1] * k + carry
         IN  <<x % Limb>> \o BigMulLimb(Tail(a), k, x \div Limb)

RECURSIVE BigMul(_, _)
BigMul(a, b) ==
    IF Len(b) = 0 THEN <<>>
    ELSE BigAdd(BigMulLimb(a, b[1], 0), <<0>> \o BigMul(a, Tail(b)))

\* -1, 0, 1 as a < b, a = b, a > b, for numbers of the same length
RECURSIVE BigCmpSame(_, _)
BigCmpSame(a, b) ==
    IF Len(a) = 0 THEN 0
    ELSE IF a[Len(a)] # b[Len(b)] THEN Sign(a[Len(a)] - b[Len(b)])
    ELSE BigCmpSame(SubSeq(a, 1, Len(a) - 1), SubSeq(b, 1, Len(b) - 1))

BigCmp(a, b) ==
    LET x == BigNorm(a)
        y == BigNorm(b)
    IN  IF Len(x) # Len(y) THEN Sign(Len(x) - Len(y)) ELSE BigCmpSame(x, y)

\* a - b for a >= b
RECURSIVE BigSubBorrow(_, _, _)
BigSubBorrow(a, b, borrow) ==
    IF Len(a) = 0 THEN <<>>
    ELSE LET x == a[1] - (IF Len(b) > 0 THEN b[1] ELSE 0) - borrow
         IN  <<IF x < 0 THEN x + Limb ELSE x>> \o
             BigSubBorrow(Tail(a), IF Len(b) > 0 THEN Tail(b) ELSE b, IF x < 0 THEN 1 ELSE 0)

\* Math.abs(a - b)
BigAbsDiff(a, b) ==
    IF BigCmp(a, b) >= 0 THEN BigNorm(BigSubBorrow(a, b, 0)) ELSE BigNorm(BigSubBorrow(b, a, 0))

\* Object.keys(TIME_STEPS): the units in the order of the table
UnitOrder == <<"year", "month", "week", "day", "hour", "minute", "second", "millisecond">>

\* MS: the length of a unit in milliseconds; all but the millisecond are
\* whole seconds (month and year are the averages 2629746 s and 31556952 s)
UnitSeconds ==
    [second |-> 1, minute |-> 60, hour |-> 3600, day |-> 86400, week |-> 604800,
     month |-> 2629746, year |-> 31556952]
MS(unit) ==
    IF unit = "millisecond" THEN Big(1) ELSE BigMul(Big(UnitSeconds[unit]), Big(1000))

TIME_STEPS ==
    [year |-> <<1, 2, 5, 10>>, month |-> <<1, 3, 6>>, week |-> <<1, 2, 4>>,
     day |-> <<1, 2, 3, 7>>, hour |-> <<1, 3, 6, 12>>, minute |-> <<1, 5, 15, 30>>,
     second |-> <<1, 5, 15, 30>>,
     millisecond |-> <<1, 5, 10, 50, 100, 250, 500>>]

\* The (unit, step) pairs in the order the two forEach loops visit them
RECURSIVE CandidatesFrom(_)
CandidatesFrom(u) ==
    IF u > Len(UnitOrder) THEN <<>>
    ELSE [i \in 1..Len(TIME_STEPS[UnitOrder[u]]) |->
             [unit |-> UnitOrder[u], step |-> TIME_STEPS[UnitOrder[u]][i]]]
         \o CandidatesFrom(u + 1)
Candidates == CandidatesFrom(1)

\* score = |span / (base * step) - desiredCount| as the fraction num / den
Score(span, cand, desiredCount) ==
    LET den == BigMul(MS(cand.unit), Big(cand.step))
    IN  [num |-> BigAbsDiff(span, BigMul(den, Big(desiredCount))), den |-> den]

\* x < y for two scores
ScoreLess(x, y) == BigCmp(BigMul(x.num, y.den), BigMul(y.num, x.den)) < 0

\* An instant is a day number since 1970-01-01 and a millisecond of that day
DayMs == UnitSeconds.day * 1000
Instant(d, ms) == [d |-> d + FloorQ(ms, DayMs), ms |-> ms - FloorQ(ms, DayMs) * DayMs]
Before(a, b) == a.d < b.d \/ (a.d = b.d /\ a.ms < b.ms)
NotAfter(a, b) == ~Before(b, a)
PlusMs(a, ms) == Instant(a.d, a.ms + ms)

\* Math.abs(stop - start) in milliseconds
SpanMs(start, stop) ==
    LET lo == IF Before(stop, start) THEN stop ELSE start
        hi == IF Before(stop, start) THEN start ELSE stop
        days == IF hi.ms >= lo.ms THEN hi.d - lo.d ELSE hi.d - lo.d - 1
        ms == IF hi.ms >= lo.ms THEN hi.ms - lo.ms ELSE hi.ms - lo.ms + DayMs
    IN  BigNorm(BigAdd(BigMul(Big(days), Big(DayMs)), Big(ms)))

\* The forEach loops of chooseTimeInterval from candidate k on; best.found
\* is FALSE while bestScore is still Number.POSITIVE_INFINITY
RECURSIVE ChooseFrom(_, _, _, _)
ChooseFrom(k, span, desiredCount, best) ==
    IF k > Len(Candidates) THEN best
    ELSE LET score == Score(span, Candidates[k], desiredCount)
         IN  IF ~best.found \/ ScoreLess(score, best.score)
             THEN ChooseFrom(k + 1, span, desiredCount,
                             [found |-> TRUE, unit |-> Candidates[k].unit,
                              step |-> Candidates[k].step, score |-> score])
             ELSE ChooseFrom(k + 1, span, desiredCount, best)

\* chooseTimeInterval where a candidate of equal score replaces the best
RECURSIVE ChooseLastFrom(_, _, _, _)
ChooseLastFrom(k, span, desiredCount, best) ==
    IF k > Len(Candidates) THEN best
    ELSE LET score == Score(span, Candidates[k], desiredCount)
         IN  IF ~best.found \/ ~ScoreLess(best.score, score)
             THEN ChooseLastFrom(k + 1, span, desiredCount,
                                 [found |-> TRUE, unit |-> Candidates[k].unit,
                                  step |-> Candidates[k].step, score |-> score])
             ELSE ChooseLastFrom(k + 1, span, desiredCount, best)

NoBest == [found |-> FALSE, unit |-> "day", step |-> 1, score |-> [num |-> <<>>, den |-> Big(1)]]

chooseTimeIntervalLastWins(start, stop, desiredCount) ==
    LET best == ChooseLastFrom(1, SpanMs(start, stop), desiredCount, NoBest)
    IN  [unit |-> best.unit, step |-> best.step]

\* chooseTimeInterval(start, stop, desiredCount)
chooseTimeInterval(start, stop, desiredCount) ==
    LET best == ChooseFrom(1, SpanMs(start, stop), desiredCount, NoBest)
    IN  [unit |-> best.unit, step |-> best.step]

\* Date.UTC(y, m - 1, d) in days since the epoch; d may run past the month
DaysFromCivil(y, m, d) ==
    LET yy == IF m <= 2 THEN y - 1 ELSE y
        era == FloorQ(yy, 400)
        yoe == yy - era * 400
        doy == (153 * (IF m > 2 THEN m - 3 ELSE m + 9) + 2) \div 5 + d - 1
        doe == yoe * 365 + yoe \div 4 - yoe \div 100 + doy
    IN  era * 146097 + doe - 719468

\* getUTCFullYear(), getUTCMonth() + 1 and getUTCDate() of day number z
CivilFromDays(z) ==
    LET zz == z + 719468
        era == FloorQ(zz, 146097)
        doe == zz - era * 146097
        yoe == (doe - doe \div 1460 + doe \div 36524 - doe \div 146096) \div 365
        doy == doe - (365 * yoe + yoe \div 4 - yoe \div 100)
        mp == (5 * doy + 2) \div 153
        m == IF mp < 10 THEN mp + 3 ELSE mp - 9
    IN  [y |-> yoe + era * 400 + (IF m <= 2 THEN 1 ELSE 0), m |-> m,
         d |-> doy - (153 * mp + 2) \div 5 + 1]

\* The length in milliseconds of the units below the day
SubDayMs == [hour |-> 3600000, minute |-> 60000, second |-> 1000, millisecond |-> 1]

\* floorDate(date, unit, step).  Below the day, step * MS[unit] divides the
\* day for every step of TIME_STEPS and for step 1, so that flooring the
\* epoch milliseconds floors the millisecond of the day.
floorDate(date, unit, step) ==
    LET c == CivilFromDays(date.d)
    IN  CASE unit = "year" -> Instant(DaysFromCivil(FloorQ(c.y, step) * step, 1, 1), 0)
          [] unit = "month" -> Instant(DaysFromCivil(c.y, FloorQ(c.m - 1, step) * step + 1, 1), 0)
          [] unit = "week" -> Instant(FloorQ(date.d, 7 * step) * 7 * step, 0)
          [] unit = "day" -> Instant(FloorQ(date.d, step) * step, 0)
          [] OTHER -> Instant(date.d, FloorQ(date.ms, step * SubDayMs[unit]) * step * SubDayMs[unit])

\* addToDate(date, unit, step): the setUTC* calls carry an overflow of the
\* day of the month into the next month
addToDate(date, unit, step) ==
    LET c == CivilFromDays(date.d)
        m0 == c.m - 1 + step
    IN  CASE unit = "year" -> Instant(DaysFromCivil(c.y + step, c.m, 1) + c.d - 1, date.ms)
          [] unit = "month" ->
                Instant(DaysFromCivil(c.y + FloorQ(m0, 12), (m0 % 12) + 1, 1) + c.d - 1, date.ms)
          [] unit = "week" -> Instant(date.d + 7 * step, date.ms)
          [] unit = "day" -> Instant(date.d + step, date.ms)
          [] OTHER -> PlusMs(date, step * SubDayMs[unit])

\* A time axis {unit, tickCount}; plotWidth is None when it is undefined
NoTimeAxis == [unit |-> None, tickCount |-> None]

\* desiredCount with the caller's tickCount clamped as well
DesiredCountClamped(axis, plotWidth) ==
    LET fallbackWidth == Coalesce(plotWidth, 720)
        autoCount == FloorQ(2 * fallbackWidth + 90, 180)
    IN  Max2(3, Min2(60, Coalesce(axis.tickCount, autoCount)))

\* desiredCount = axis.tickCount ?? Math.max(3, Math.min(60, Math.round(fallbackWidth / 90)))
DesiredCount(axis, plotWidth) ==
    LET fallbackWidth == Coalesce(plotWidth, 720)
        autoCount == FloorQ(2 * fallbackWidth + 90, 180)
    IN  Coalesce(axis.tickCount, Max2(3, Min2(60, autoCount)))

\* The interval of timeTicks: chosen when the unit is "auto" or undefined,
\* the pinned unit with step 1 otherwise
TickInterval(start, stop, axis, plotWidth) ==
    IF ~axis.unit.has \/ axis.unit.val = "auto"
    THEN chooseTimeInterval(start, stop, DesiredCount(axis, plotWidth))
    ELSE [unit |-> axis.unit.val, step |-> 1]

\* The for loop of timeTicks from current on
RECURSIVE TickLoop(_, _, _, _)
TickLoop(current, start, stop, interval) ==
    IF Before(PlusMs(stop, 1), current) THEN <<>>
    ELSE (IF NotAfter(PlusMs(start, -1), current) THEN <<current>> ELSE <<>>)
         \o TickLoop(addToDate(current, interval.unit, interval.step), start, stop, interval)

\* timeTicks without the fallback tick
timeTicksNoFallback(start, stop, axis, plotWidth) ==
    LET interval == TickInterval(start, stop, axis, plotWidth)
        first == floorDate(start, interval.unit, interval.step)
    IN  TickLoop(first, start, stop, interval)

\* timeTicks(start, stop, axis, plotWidth)
timeTicks(start, stop, axis, plotWidth) ==
    LET interval == TickInterval(start, stop, axis, plotWidth)
        first == floorDate(start, interval.unit, interval.step)
        ticks == TickLoop(first, start, stop, interval)
    IN  IF Len(ticks) = 0 THEN <<start>> ELSE ticks

----------------------------------------------------------------------------
(* Specification SpecTime: timeTicks applied to a time domain *)

\* Domain starts: the epoch, the millisecond before it, a millisecond past
\* the new year of 2024, and 2024-02-28T22:59:59.998Z
TimeStarts == {Instant(0, 0), Instant(0, -1), Instant(19723, 1), Instant(19781, 82799998)}

\* Domain lengths as days and milliseconds, each with the finest pinned unit
\* (as an index of UnitOrder) whose tick loop stays short
TimeSpans ==
    {[d |-> 0, ms |-> 0, finest |-> 8], [d |-> 0, ms |-> 1, finest |-> 8],
     [d |-> 0, ms |-> 2, finest |-> 8], [d |-> 0, ms |-> 60, finest |-> 8],
     [d |-> 0, ms |-> 45000, finest |-> 7], [d |-> 0, ms |-> 2700000, finest |-> 6],
     [d |-> 0, ms |-> 21600000, finest |-> 5],
     [d |-> 3, ms |-> 0, finest |-> 5], [d |-> 45, ms |-> 0, finest |-> 4],
     [d |-> 400, ms |-> 5, finest |-> 3], [d |-> 1500, ms |-> 0, finest |-> 2],
     [d |-> 4383, ms |-> 0, finest |-> 1]}

TimeUnits(span) == {None, Some("auto")} \cup {Some(UnitOrder[u]) : u \in 1..span.finest}

\* Plot widths: undefined, negative, and widths whose ninetieth rounds up,
\* rounds down, falls below 3 and exceeds 60
PlotWidths == {None} \cup {Some(w) : w \in {-20, 100, 225, 314, 315, 728, 6000}}

TickCounts == {Some(0), Some(1), Some(4), Some(MaxTickCount), Some(61)}

TimeArgs ==
    {[start |-> start, stop |-> Instant(start.d + span.d, start.ms + span.ms),
      axis |-> [unit |-> unit, tickCount |-> sizing[1]], plotWidth |-> sizing[2]] :
        start \in TimeStarts, span \in TimeSpans, unit \in {None, Some("auto")},
        sizing \in ({None} \X PlotWidths) \cup (TickCounts \X {None, Some(728)})}
    \cup
    UNION {{[start |-> start, stop |-> Instant(start.d + span.d, start.ms + span.ms),
             axis |-> [unit |-> unit, tickCount |-> sizing[1]], plotWidth |-> sizing[2]] :
               start \in TimeStarts, unit \in TimeUnits(span),
               sizing \in {<<None, None>>, <<None, Some(6000)>>, <<Some(1), Some(728)>>}} :
           span \in TimeSpans}

InitTime ==
    /\ pc = "apply"
    /\ args \in TimeArgs
    /\ out = <<>>
    /\ req = NoCall
    /\ payload = NoPayload
    /\ series = <<>>
    /\ layout = NoLayout
    /\ geom = NoGeom
    /\ result = NoResult

\* timeTicks(start, stop, axis, plotWidth), with the desired count and the
\* interval it worked with
ApplyTimeTicks ==
    /\ pc = "apply"
    /\ pc' = "applied"
    /\ out' = [desiredCount |-> DesiredCount(args.axis, args.plotWidth),
               interval |-> TickInterval(args.start, args.stop, args.axis, args.plotWidth),
               ticks |-> timeTicks(args.start, args.stop, args.axis, args.plotWidth)]
    /\ UNCHANGED <<req, payload, series, layout, geom, result, args>>

NextTime == ApplyTimeTicks

SpecTime == InitTime /\ [][NextTime]_vars

----------------------------------------------------------------------------
(* Specification SpecPath: areaPath and linePath applied to pixel points *)

\* Area points { x, y0, y1 } in pixels
PathPoints == [x : {0, 1}, y0 : {0, 1}, y1 : {2, 3}]

InitPath ==
    /\ pc = "apply"
    /\ args \in SeqsUpTo(PathPoints, MaxPoints)
    /\ out = <<>>
    /\ req = NoCall
    /\ payload = NoPayload
    /\ series = <<>>
    /\ layout = NoLayout
    /\ geom = NoGeom
    /\ result = NoResult

\* The two calls of the areas loop of renderStackedAreaChart
ApplyAreaPath ==
    /\ pc = "apply"
    /\ pc' = "applied"
    /\ out' = [area |-> areaPath(args),
               line |-> linePath([i \in 1..Len(args) |-> [x |-> args[i].x, y |-> args[i].y1]])]
    /\ UNCHANGED <<req, payload, series, layout, geom, result, args>>

NextPath == ApplyAreaPath

SpecPath == InitPath /\ [][NextPath]_vars

----------------------------------------------------------------------------
(* Specification SpecMarkup: requests whose strings hold markup characters *)

MarkupStrings == {"a", "a&b", "<b>", "x\"y", "it's", "&amp;"}

\* One field of the request set, or all of them
MarkupTexts ==
    {[NoText EXCEPT ![f] = s] : f \in DOMAIN NoText, s \in MarkupStrings}
    \cup {[f \in DOMAIN NoText |-> s] : s \in MarkupStrings}

\* Two series, the first with a name, a color, both or neither
MarkupSeries ==
    {<<[RawSeries(<<Point(0, 1), Point(1, 2)>>) EXCEPT !.name = nc[1], !.color = nc[2]],
       RawSeries(<<Point(0, 2)>>)>> :
        nc \in {<<"", "">>} \cup {<<s, "">> : s \in MarkupStrings}
               \cup {<<"", s>> : s \in MarkupStrings} \cup {<<s, s>> : s \in MarkupStrings}}

\* Legacy bodies {options, lines} / {options, areas} with labels and colors
MarkupLegacy ==
    {[seriesKey |-> "absent", series |-> <<>>, legacyKey |-> "array",
      legacy |-> <<[LegacyEntry(<<LegacyPoint(0, 1)>>) EXCEPT !.label = lc[1], !.color = lc[2]],
                   LegacyEntry(<<LegacyPoint(0, 2)>>)>>,
      dimensions |-> DefaultDimensions, text |-> text, y |-> DefaultAxis, legend |-> NoLegend] :
        lc \in {<<"", "">>} \cup {<<s, s>> : s \in MarkupStrings},
        text \in {NoText} \cup {[f \in DOMAIN NoText |-> s] : s \in MarkupStrings}}

MarkupCalls ==
    {Call(via, kind, [SeriesBody(<<RawSeries(<<Point(0, 1), Point(1, 2)>>), RawSeries(<<Point(0, 2)>>)>>,
                                 DefaultDimensions, DefaultAxis, NoLegend) EXCEPT !.text = text]) :
        via \in {"direct", "service"}, kind \in {"line", "stacked-area"}, text \in MarkupTexts}
    \cup
    {Call(via, kind, SeriesBody(ser, DefaultDimensions, DefaultAxis, NoLegend)) :
        via \in {"direct", "service"}, kind \in {"line", "stacked-area"}, ser \in MarkupSeries}
    \cup
    {Call("service", kind, body) : kind \in {"line", "stacked-area"}, body \in MarkupLegacy}

InitMarkup == InitRender(MarkupCalls)

SpecMarkup == InitMarkup /\ [][NextRender]_vars

----------------------------------------------------------------------------
(* Specification SpecSession: several render calls, one after the other *)

\* The module-level tables of shared.ts, held as state of the session
ModuleTables == [DEFAULT_MARGINS |-> DEFAULT_MARGINS, DEFAULT_COLORS |-> DEFAULT_COLORS]

\* Requests with data out of time order, with a color, with a margin, and one
\* that is refused
SessionBodies ==
    {SeriesBody(<<RawSeries(<<Point(1, 2), Point(0, 1)>>)>>, DefaultDimensions, DefaultAxis, NoLegend),
     SeriesBody(<<[RawSeries(<<Point(0, 1), Point(1, 2)>>) EXCEPT !.color = "red"],
                  RawSeries(<<Point(1, 1), Point(0, 2)>>)>>,
                [DefaultDimensions EXCEPT !.margin.top = Some(40)], DefaultAxis, NoLegend)}

SessionCalls ==
    {Call(via, kind, body) : via \in {"direct", "service"}, kind \in {"line", "stacked-area"},
                             body \in SessionBodies}
    \cup {Call("direct", "line", SeriesBody(<<>>, DefaultDimensions, DefaultAxis, NoLegend)),
          Call("service", "stacked-area",
               SeriesBody(<<RawSeries(<<>>)>>, DefaultDimensions, NoAxis, NoLegend))}

\* args holds the module tables; out holds the request as the caller wrote
\* it (given) and, per finished call, that request, the request object as
\* the call left it (after) and what the call returned or threw
InitSession ==
    /\ pc = "call"
    /\ req \in SessionCalls
    /\ payload = NoPayload
    /\ series = <<>>
    /\ layout = NoLayout
    /\ geom = NoGeom
    /\ result = NoResult
    /\ args = ModuleTables
    /\ out = [given |-> req, log |-> <<>>]

\* The call returns or throws, and the caller makes the next call: the locals
\* of the finished call are gone, the module tables are what they are
ReturnAndCallAgain ==
    /\ pc \in {"done", "failed"}
    /\ Len(out.log) < MaxCalls - 1
    /\ \E next \in SessionCalls :
          /\ req' = next
          /\ out' = [given |-> next,
                     log |-> Append(out.log, [request |-> out.given, after |-> req,
                                              result |-> result])]
    /\ pc' = "call"
    /\ payload' = NoPayload
    /\ series' = <<>>
    /\ layout' = NoLayout
    /\ geom' = NoGeom
    /\ result' = NoResult
    /\ UNCHANGED args

NextSession == NextRender \/ ReturnAndCallAgain

SpecSession == InitSession /\ [][NextSession]_vars

----------------------------------------------------------------------------
(* Specification SpecPalette: more series than the palette has colors *)

\* Two series more than DEFAULT_COLORS has entries
PaletteSeries == Len(DEFAULT_COLORS) + 2

\* Series i has the single point (0, i), so a drawn series tells its place in
\* the request; the series in dropped have no point, the one at colored (if
\* any) has a color of its own
PaletteRequest(dropped, colored) ==
    [i \in 1..PaletteSeries |->
        [RawSeries(IF i \in dropped THEN <<>> ELSE <<Point(0, i)>>)
            EXCEPT !.color = IF i = colored THEN "red" ELSE ""]]

PaletteCalls ==
    {Call(via, kind, SeriesBody(PaletteRequest(dropped, colored),
                                DefaultDimensions, DefaultAxis, NoLegend)) :
        via \in {"direct", "service"}, kind \in {"line", "stacked-area"},
        dropped \in {d \in SUBSET (1..PaletteSeries) : Cardinality(d) <= 2},
        colored \in 0..PaletteSeries}

InitPalette == InitRender(PaletteCalls)

SpecPalette == InitPalette /\ [][NextRender]_vars

----------------------------------------------------------------------------
(* Specification SpecFlat: charts whose values are all the same number *)

FlatAxes ==
    {DefaultAxis}
    \cup {[has |-> TRUE, domain |-> None, nice |-> nice, tickCount |-> Some(n)] :
            nice \in {None, Some(FALSE)}, n \in 0..MaxTickCount}

\* One or two series whose points all have the value a
FlatSeries(a) ==
    {<<RawSeries(<<Point(0, a)>>)>>,
     <<RawSeries(<<Point(0, a), Point(1, a)>>)>>,
     <<RawSeries(<<Point(0, a), Point(1, a)>>), RawSeries(<<Point(1, a)>>)>>}

FlatCalls ==
    UNION {{Call(via, kind, SeriesBody(ser, DefaultDimensions, y, NoLegend)) :
               via \in {"direct", "service"}, kind \in {"line", "stacked-area"},
               ser \in FlatSeries(a), y \in FlatAxes} :
           a \in (-MaxValue)..MaxValue}

InitFlat == InitRender(FlatCalls)

SpecFlat == InitFlat /\ [][NextRender]_vars

----------------------------------------------------------------------------
(* Specification SpecNice: charts over increasing y domains *)

\* y-axis options: the domain read from the values or given as [a, b] with
\* a < b, every tick count hint, nicing by default, on or off
NiceAxes ==
    {[has |-> TRUE, domain |-> dom, nice |-> nice, tickCount |-> n] :
        dom \in {None} \cup {Some(<<a, b>>) : a, b \in DomainBounds},
        nice \in {None, Some(TRUE), Some(FALSE)},
        n \in {None} \cup {Some(k) : k \in 0..MaxTickCount}}

NiceCalls ==
    {Call(via, kind, SeriesBody(<<RawSeries(<<Point(0, -1), Point(1, MaxValue)>>)>>,
                                DefaultDimensions, y, NoLegend)) :
        via \in {"direct", "service"}, kind \in {"line", "stacked-area"},
        y \in {x \in NiceAxes : x.domain.has => x.domain.val[1] < x.domain.val[2]}}

InitNice == InitRender(NiceCalls)

SpecNice == InitNice /\ [][NextRender]_vars

----------------------------------------------------------------------------
(* Specification SpecLoop: the for loop of timeTicks, one iteration a step *)

\* A time as parseDate returns it: cls "fin" with the instant at, or "nan",
\* "inf" (+Infinity), "ninf" (-Infinity)
FinTime(at) == [cls |-> "fin", at |-> at]
NonFinTime(cls) == [cls |-> cls, at |-> Instant(0, 0)]

\* A Date object holds an instant of at most MaxDay days either side of the
\* epoch (100,000,000 days in ECMAScript), or NaN: the invalid Date
InvalidDate == [valid |-> FALSE, at |-> Instant(0, 0)]
TimeClip(at) ==
    IF NotAfter(Instant(-MaxDay, 0), at) /\ NotAfter(at, Instant(MaxDay, 0))
    THEN [valid |-> TRUE, at |-> at]
    ELSE InvalidDate

\* new Date(time)
NewDate(time) == IF time.cls = "fin" THEN TimeClip(time.at) ELSE InvalidDate

\* floorDate and addToDate on Date objects: the setters and new Date(aligned)
\* leave an invalid Date invalid and clip the result to the range
FloorDateObject(date, interval) ==
    IF date.valid THEN TimeClip(floorDate(date.at, interval.unit, interval.step)) ELSE InvalidDate
AddToDateObject(date, interval) ==
    IF date.valid THEN TimeClip(addToDate(date.at, interval.unit, interval.step)) ELSE InvalidDate

\* The interval of timeTicks for any start and stop: over a span that is
\* Infinity or NaN no score is below Infinity and chooseTimeInterval keeps
\* its initial best, { unit: "day", step: 1 }
LoopInterval(start, stop, axis, plotWidth) ==
    IF axis.unit.has /\ axis.unit.val # "auto" THEN [unit |-> axis.unit.val, step |-> 1]
    ELSE IF start.cls = "fin" /\ stop.cls = "fin"
    THEN chooseTimeInterval(start.at, stop.at, DesiredCount(axis, plotWidth))
    ELSE [unit |-> "day", step |-> 1]

\* current.getTime() <= stop + 1
LoopCondition(current, stop) ==
    /\ current.valid
    /\ \/ stop.cls = "inf"
       \/ stop.cls = "fin" /\ NotAfter(current.at, PlusMs(stop.at, 1))

\* current.getTime() >= start - 1, for a valid current
PushCondition(current, start) ==
    \/ start.cls = "ninf"
    \/ start.cls = "fin" /\ NotAfter(PlusMs(start.at, -1), current.at)

\* Domain starts, and lengths with the finest pinned unit whose loop is short
LoopStarts == {Instant(0, 0), Instant(-1, DayMs - 1)}
LoopSpans == {span \in TimeSpans : span.d < MaxDay}

\* [xMin, xMax] of timestamps parseDate accepted, with the x axis options:
\* finite domains, domains that end at +Infinity or past the last Date,
\* and domains whose start is -Infinity, NaN, +Infinity or before the first Date
LoopArgs ==
    UNION {{[start |-> FinTime(start),
             stop |-> FinTime(Instant(start.d + span.d, start.ms + span.ms)),
             axis |-> [unit |-> unit, tickCount |-> count], plotWidth |-> None] :
               start \in LoopStarts, unit \in TimeUnits(span), count \in {None, Some(1)}} :
           span \in LoopSpans}
    \cup
    {[start |-> FinTime(start), stop |-> stop,
      axis |-> [unit |-> unit, tickCount |-> None], plotWidth |-> None] :
        start \in LoopStarts,
        stop \in {NonFinTime("inf"), FinTime(Instant(MaxDay + 1, 0))},
        unit \in TimeUnits([finest |-> 4])}
    \cup
    {[start |-> domain[1], stop |-> domain[2],
      axis |-> [unit |-> unit, tickCount |-> None], plotWidth |-> None] :
        domain \in {<<NonFinTime("ninf"), FinTime(Instant(0, 0))>>,
                    <<NonFinTime("ninf"), NonFinTime("inf")>>,
                    <<NonFinTime("ninf"), NonFinTime("ninf")>>,
                    <<NonFinTime("inf"), NonFinTime("inf")>>,
                    <<NonFinTime("nan"), NonFinTime("nan")>>,
                    <<FinTime(Instant(-MaxDay - 1, 0)), FinTime(Instant(0, 0))>>},
        unit \in TimeUnits([finest |-> 8])}

InitLoop ==
    /\ pc = "apply"
    /\ args \in LoopArgs
    /\ out = <<>>
    /\ req = NoCall
    /\ payload = NoPayload
    /\ series = <<>>
    /\ layout = NoLayout
    /\ geom = NoGeom
    /\ result = NoResult

\* timeTicks up to the initialisation of the loop: current = first
EnterTickLoop ==
    /\ pc = "apply"
    /\ pc' = "loop"
    /\ LET interval == LoopInterval(args.start, args.stop, args.axis, args.plotWidth)
       IN  out' = [interval |-> interval,
                   current |-> FloorDateObject(NewDate(args.start), interval),
                   ticks |-> 0, iterations |-> 0]
    /\ UNCHANGED <<req, payload, series, layout, geom, result, args>>

\* One iteration: the condition holds, the body pushes current when it is
\* not before start - 1, and current = addToDate(current, unit, step)
TickLoopIteration ==
    /\ pc = "loop"
    /\ LoopCondition(out.current, args.stop)
    /\ out' = [out EXCEPT !.current = AddToDateObject(out.current, out.interval),
                          !.ticks = IF PushCondition(out.current, args.start) THEN @ + 1 ELSE @,
                          !.iterations = @ + 1]
    /\ UNCHANGED <<req, pc, payload, series, layout, geom, result, args>>

\* The condition fails: the loop is left, ticks gets new Date(start) when it
\* is empty, and timeTicks returns
TickLoopExit ==
    /\ pc = "loop"
    /\ ~LoopCondition(out.current, args.stop)
    /\ pc' = "applied"
    /\ out' = [out EXCEPT !.ticks = IF @ = 0 THEN 1 ELSE @]
    /\ UNCHANGED <<req, payload, series, layout, geom, result, args>>

NextLoop == EnterTickLoop \/ TickLoopIteration \/ TickLoopExit

SpecLoop == InitLoop /\ [][NextLoop]_vars

----------------------------------------------------------------------------
(* Storage service (storage-service.ts) and the scheduled purge (worker) *)

\* crypto.randomUUID(): the n-th identifier the runtime hands out
UuidOf(n) == "0000000" \o ToString(n) \o "-ab12-4cde-8f01-23456789abcd"

\* generateChartId without the UUID
generateChartIdByPrefix(chartType, uuid) ==
    IF chartType = "line" THEN "chart_line_time_0" ELSE "chart_stacked_area_time_0"

\* generateChartId(chartType) with the UUID drawn
generateChartId(chartType, uuid) ==
    (IF chartType = "line" THEN "chart_line_time" ELSE "chart_stacked_area_time") \o "_" \o uuid

\* `${chartType}/${id}.svg`
ObjectKey(chartType, id) == chartType \o "/" \o id \o ".svg"

\* An R2 object: its key, the chart type and UUID number the key was built
\* from (they give the listing order of the keys), its upload time in
\* milliseconds (None when the listing carries none) and its body
StoredObject(chartType, n, uploaded, svg) ==
    [key |-> ObjectKey(chartType, generateChartId(chartType, UuidOf(n))),
     type |-> chartType, n |-> n, uploaded |-> uploaded, svg |-> svg]

\* The order of the keys in a listing
KeyBefore(a, b) == (a.type = "line" /\ b.type # "line") \/ (a.type = b.type /\ a.n < b.n)

RECURSIVE ObjectsInKeyOrder(_)
ObjectsInKeyOrder(objects) ==
    IF objects = {} THEN <<>>
    ELSE LET first == CHOOSE o \in objects : \A p \in objects \ {o} : KeyBefore(o, p)
         IN  <<first>> \o ObjectsInKeyOrder(objects \ {first})

\* bucket.list({ cursor, limit }): the next objects in key order after the
\* cursor; truncated with a cursor when more remain
BucketList(bucket, cursor, limit) ==
    LET rest == ObjectsInKeyOrder({o \in bucket : cursor.has => KeyBefore(cursor.val, o)})
        objects == SubSeq(rest, 1, Min2(limit, Len(rest)))
        truncated == Len(rest) > limit
    IN  [objects |-> objects, truncated |-> truncated,
         cursor |-> IF truncated THEN Some(objects[Len(objects)]) ELSE None]

\* bucket.put(key, svg, ...) at the time clock: replaces an object of that key
BucketPut(bucket, object) == {o \in bucket : o.key # object.key} \cup {object}

\* bucket.get(key)
BucketGet(bucket, key) ==
    IF \E o \in bucket : o.key = key
    THEN Some((CHOOSE o \in bucket : o.key = key).svg)
    ELSE None

\* bucket.delete(key)
BucketDelete(bucket, key) == {o \in bucket : o.key # key}

\* saveChart(bucket, chartType, svg, baseUrl) with the UUID number drawn and
\* the time of the upload
saveChart(bucket, chartType, svg, baseUrl, n, clock) ==
    LET id == generateChartId(chartType, UuidOf(n))
        chartPath == IF chartType = "line" THEN "line/time" ELSE "stacked-area/time"
    IN  [bucket |-> BucketPut(bucket, [key |-> ObjectKey(chartType, id), type |-> chartType,
                                       n |-> n, uploaded |-> Some(clock), svg |-> svg]),
         stored |-> [id |-> id, url |-> baseUrl \o "/v1/chartgen/" \o chartPath \o "/" \o id]]

\* getChart(bucket, chartType, id): None is null
getChart(bucket, chartType, id) == BucketGet(bucket, ObjectKey(chartType, id))

\* Times are counted in whole seconds: the integer n is n * 1000 ms.
\* The retention units of parseRetentionMs
RetentionUnits == [m |-> 60, h |-> 60 * 60, d |-> 24 * 60 * 60,
                   w |-> 7 * 24 * 60 * 60, y |-> 365 * 24 * 60 * 60]
DEFAULT_RETENTION_MS == 365 * 24 * 60 * 60

\* env.CHART_RETENTION_MAX_AGE: not set, or trimmed and lower-cased text
\* that is a run of digits (their value, None when there is none) and a rest
NoRetention == [given |-> FALSE, digits |-> None, rest |-> ""]
Retention(digits, rest) == [given |-> TRUE, digits |-> digits, rest |-> rest]

\* parseRetentionMs(raw): thrown unless the text is digits and one of y, w, d, h, m
parseRetentionMs(raw) ==
    IF ~raw.given THEN [thrown |-> FALSE, ms |-> DEFAULT_RETENTION_MS]
    ELSE IF raw.digits.has /\ raw.rest \in DOMAIN RetentionUnits
    THEN [thrown |-> FALSE, ms |-> raw.digits.val * RetentionUnits[raw.rest]]
    ELSE [thrown |-> TRUE, ms |-> 0]

\* getRetentionMs(env)
getRetentionMs(raw) ==
    IF parseRetentionMs(raw).thrown THEN DEFAULT_RETENTION_MS ELSE parseRetentionMs(raw).ms

\* age >= maxAgeMs in place of age > maxAgeMs
IsAsOldAs(object, now, maxAgeMs) ==
    object.uploaded.has /\ now - object.uploaded.val >= maxAgeMs

\* age > maxAgeMs for an object of a listing
IsOlderThan(object, now, maxAgeMs) ==
    object.uploaded.has /\ now - object.uploaded.val > maxAgeMs

\* The purge before scheduled() has fired.  listed, removed and truncations
\* record what the run listed, deleted and was told about each page.
NoPurge ==
    [at |-> "idle", now |-> 0, maxAgeMs |-> 0, cursor |-> None, page |-> <<>>,
     truncated |-> FALSE, i |-> 0, deleted |-> 0, scanned |-> 0,
     listed |-> {}, removed |-> {}, truncations |-> <<>>, before |-> {}]

\* Date.now() when the worker is first looked at: a year and two minutes in
ClockStart == DEFAULT_RETENTION_MS + 2 * RetentionUnits.m

\* The worker: the bucket, the clock, the number of UUIDs handed out, the
\* purge, the request being served with what saveChart returned for it, and
\* the requests served so far with their responses, and every bucket.put made
Worker(bucket, clock) ==
    [bucket |-> bucket, clock |-> clock, uuids |-> 0, purge |-> NoPurge,
     request |-> [method |-> ""], stored |-> [id |-> "", url |-> ""], served |-> <<>>,
     puts |-> {}]

\* The fetch handler is idle or at an await (request.json(), bucket.get,
\* bucket.put): only then does the runtime run another invocation's step
AtAwait == pc \in {"worker", "json", "get", "put"}

\* scheduled(): retentionMs = getRetentionMs(env), then deleteChartsOlderThan
\* up to the first bucket.list: now = Date.now(), cursor undefined
Scheduled ==
    /\ AtAwait
    /\ out.purge.at = "idle"
    /\ out' = [out EXCEPT !.purge = [NoPurge EXCEPT !.at = "list", !.now = out.clock,
                                                    !.maxAgeMs = getRetentionMs(args.retention),
                                                    !.before = out.bucket]]
    /\ UNCHANGED <<req, pc, payload, series, layout, geom, result, args>>

\* const page = await bucket.list({ cursor, limit: 1000 })
PurgeListPage ==
    /\ AtAwait
    /\ out.purge.at = "list"
    /\ LET page == BucketList(out.bucket, out.purge.cursor, PageLimit)
       IN  out' = [out EXCEPT !.purge.at = "scan",
                              !.purge.page = page.objects,
                              !.purge.truncated = page.truncated,
                              !.purge.cursor = page.cursor,
                              !.purge.i = 1,
                              !.purge.listed = @ \cup Range(page.objects),
                              !.purge.truncations = Append(@, page.truncated)]
    /\ UNCHANGED <<req, pc, payload, series, layout, geom, result, args>>

\* One iteration of for (const obj of page.objects)
PurgeScanObject ==
    /\ AtAwait
    /\ out.purge.at = "scan"
    /\ out.purge.i <= Len(out.purge.page)
    /\ LET obj == out.purge.page[out.purge.i]
           old == IsOlderThan(obj, out.purge.now, out.purge.maxAgeMs)
       IN  out' = [out EXCEPT !.bucket = IF old THEN BucketDelete(@, obj.key) ELSE @,
                              !.purge.removed = IF old THEN @ \cup {obj.key} ELSE @,
                              !.purge.deleted = IF old THEN @ + 1 ELSE @,
                              !.purge.scanned = @ + 1,
                              !.purge.i = @ + 1]
    /\ UNCHANGED <<req, pc, payload, series, layout, geom, result, args>>

\* cursor = page.truncated ? page.cursor : undefined; while (cursor); return
PurgeEndPage ==
    /\ AtAwait
    /\ out.purge.at = "scan"
    /\ out.purge.i > Len(out.purge.page)
    /\ out' = [out EXCEPT !.purge.at = IF out.purge.truncated /\ out.purge.cursor.has
                                       THEN "list" ELSE "returned",
                          !.purge.page = <<>>,
                          !.purge.i = 0]
    /\ UNCHANGED <<req, pc, payload, series, layout, geom, result, args>>

\* Date.now() moves on
ClockTick ==
    /\ AtAwait
    /\ out.clock < ClockStart + MaxClock
    /\ out' = [out EXCEPT !.clock = @ + 1]
    /\ UNCHANGED <<req, pc, payload, series, layout, geom, result, args>>

NextPurge == Scheduled \/ PurgeListPage \/ PurgeScanObject \/ PurgeEndPage

----------------------------------------------------------------------------
(* Specification SpecPurge: the scheduled purge beside uploads *)

\* Object n of the bucket is a line chart when n is odd
TypeOf(n) == IF n % 2 = 1 THEN "line" ELSE "stacked-area"

\* Upload times: none in the listing, a minute ago, a minute and a second
\* ago, a year and a second ago
UploadTimes ==
    {None, Some(ClockStart - RetentionUnits.m), Some(ClockStart - RetentionUnits.m - 1),
     Some(ClockStart - DEFAULT_RETENTION_MS - 1)}

\* The buckets of up to MaxObjects objects
Buckets ==
    {{StoredObject(TypeOf(n), n, f[n].val, "<svg/>") : n \in {k \in 1..MaxObjects : f[k].has}} :
        f \in [1..MaxObjects -> {None} \cup {Some(u) : u \in UploadTimes}]}

\* CHART_RETENTION_MAX_AGE: not set, "1m", and "5x", which does not parse
Retentions == {NoRetention, Retention(Some(1), "m"), Retention(Some(5), "x")}

InitPurge ==
    /\ pc = "worker"
    /\ args \in [retention : Retentions]
    /\ out \in {Worker(bucket, ClockStart) : bucket \in Buckets}
    /\ req = NoCall
    /\ payload = NoPayload
    /\ series = <<>>
    /\ layout = NoLayout
    /\ geom = NoGeom
    /\ result = NoResult

\* The saveChart of a PUT that is served while the purge runs, a second after
\* the purge read the clock
ConcurrentSave ==
    /\ out.purge.at \in {"list", "scan"}
    /\ out.uuids < MaxPuts
    /\ \E chartType \in {"line", "stacked-area"} :
          out' = [out EXCEPT !.bucket = saveChart(@, chartType, "<svg/>", "https://charts.test",
                                                  MaxObjects + out.uuids + 1, out.clock + 1).bucket,
                             !.uuids = @ + 1,
                             !.puts = @ \cup {[key |-> ObjectKey(chartType,
                                                      generateChartId(chartType, UuidOf(MaxObjects + out.uuids + 1))),
                                               svg |-> "<svg/>"]}]
    /\ UNCHANGED <<req, pc, payload, series, layout, geom, result, args>>

NextPurgeBesideUploads == NextPurge \/ ConcurrentSave

SpecPurge == InitPurge /\ [][NextPurgeBesideUploads]_vars

----------------------------------------------------------------------------
(* The fetch handlers (worker) *)

\* ROUTES[url.pathname]: "" when the path is not a route
ROUTES(path) ==
    IF path = "/v1/chartgen/line/time" THEN "line"
    ELSE IF path = "/v1/chartgen/stacked-area/time" THEN "stacked-area"
    ELSE ""

StartsWith(s, prefix) == Len(s) >= Len(prefix) /\ SubSeq(s, 1, Len(prefix)) = prefix
CharAt(s, i) == SubSeq(s, i, i)
LowerOrUnderscore ==
    {"a", "b", "c", "d", "e", "f", "g", "h", "i", "j", "k", "l", "m", "n", "o", "p", "q",
     "r", "s", "t", "u", "v", "w", "x", "y", "z", "_"}
HexOrDash ==
    {"0", "1", "2", "3", "4", "5", "6", "7", "8", "9", "a", "b", "c", "d", "e", "f", "-"}

\* id matches chart_[a-z_]+_[0-9a-f-]+ as a whole
IdMatches(id) ==
    /\ StartsWith(id, "chart_")
    /\ \E k \in 8..(Len(id) - 1) :
          /\ CharAt(id, k) = "_"
          /\ \A j \in 7..(k - 1) : CharAt(id, j) \in LowerOrUnderscore
          /\ \A j \in (k + 1)..Len(id) : CharAt(id, j) \in HexOrDash

\* url.pathname.match(/^\/v1\/chartgen\/(line|stacked-area)\/time\/(chart_[a-z_]+_[0-9a-f-]+)$/)
GetMatch(path) ==
    LET under(chartType) == "/v1/chartgen/" \o chartType \o "/time/"
        rest(chartType) == SubSeq(path, Len(under(chartType)) + 1, Len(path))
        hit(chartType) == StartsWith(path, under(chartType)) /\ IdMatches(rest(chartType))
    IN  IF hit("line") THEN [matched |-> TRUE, chartType |-> "line", id |-> rest("line")]
        ELSE IF hit("stacked-area")
        THEN [matched |-> TRUE, chartType |-> "stacked-area", id |-> rest("stacked-area")]
        ELSE [matched |-> FALSE, chartType |-> "", id |-> ""]

\* getBaseUrl(request) and the pathname of a URL under it
BaseUrl == "https://charts.test"
PathOf(url) == SubSeq(url, Len(BaseUrl) + 1, Len(url))

\* Response bodies: text, an SVG, JSON.stringify of a message, of
\* { error: message } and of { id, url }
TextBody(text) == [is |-> "text", text |-> text]
SvgBody(svg) == [is |-> "svg", svg |-> svg]
JsonText(message) == [is |-> "json-string", message |-> message]
JsonError(message) == [is |-> "json-error", error |-> message]
JsonStored(stored) == [is |-> "json-stored", id |-> stored.id, url |-> stored.url]

\* jsonResponse(status, data) answering 200 whatever the status
jsonResponseAlwaysOk(status, data) ==
    [status |-> 200, contentType |-> "application/json", body |-> data]

\* jsonResponse(status, data)
jsonResponse(status, data) ==
    [status |-> status, contentType |-> "application/json", body |-> data]

\* svgResponse(svg)
svgResponse(svg) == [status |-> 200, contentType |-> "image/svg+xml", body |-> SvgBody(svg)]

\* new Response("ok", { headers: corsHeaders })
OkResponse == [status |-> 200, contentType |-> "text/plain", body |-> TextBody("ok")]

\* The error body of a handler: the worker with the bucket wraps the
\* message in { error }, the handler without one sends the message itself
ErrorBody(entry, message) == IF entry = "storage" THEN JsonError(message) ELSE JsonText(message)

\* A request: the handler it is routed to ("storage": fetch(request, env),
\* "plain": fetch(request)), its method and path, and its body, which
\* request.json() parses or rejects
HttpRequest(entry, method, path, json, body) ==
    [entry |-> entry, method |-> method, path |-> path, json |-> json, body |-> body]

\* The handler returns: the response is logged with the request, what was
\* rendered for it and the puts and purge deletions made by then, and the
\* render is forgotten
Respond(response) ==
    /\ pc' = "worker"
    /\ out' = [out EXCEPT !.served = Append(@, [request |-> out.request, response |-> response,
                                                 rendered |-> result, puts |-> out.puts,
                                                 purged |-> out.purge.removed]),
                          !.request = [method |-> ""],
                          !.stored = [id |-> "", url |-> ""]]
    /\ req' = NoCall
    /\ payload' = NoPayload
    /\ series' = <<>>
    /\ layout' = NoLayout
    /\ geom' = NoGeom
    /\ result' = NoResult
    /\ UNCHANGED args

\* What fetch does with a request before its first await
FetchStart(request) ==
    LET getMatch == GetMatch(request.path)
        await(at) ==
            /\ pc' = at
            /\ out' = [out EXCEPT !.request = request]
            /\ UNCHANGED <<req, payload, series, layout, geom, result, args>>
        answer(response) ==
            /\ pc' = "worker"
            /\ out' = [out EXCEPT !.served = Append(@, [request |-> request, response |-> response,
                                                         rendered |-> NoResult, puts |-> out.puts,
                                                         purged |-> out.purge.removed])]
            /\ UNCHANGED <<req, payload, series, layout, geom, result, args>>
    IN  IF request.method = "OPTIONS" THEN answer(OkResponse)
        ELSE IF request.entry = "plain"
        THEN IF request.method # "POST"
             THEN answer(jsonResponse(405, JsonText("Method not allowed")))
             ELSE IF ROUTES(request.path) = ""
             THEN answer(jsonResponse(404, JsonText("Not found")))
             ELSE await("json")
        ELSE IF getMatch.matched /\ request.method = "GET" THEN await("get")
        ELSE IF ROUTES(request.path) = ""
        THEN answer(jsonResponse(404, JsonError("Not found")))
        ELSE IF request.method \notin {"POST", "PUT"}
        THEN answer(jsonResponse(405, JsonError("Method not allowed")))
        ELSE await("json")

\* await getChart(env.CHARTS_BUCKET, chartType, id) and the response
FetchGet ==
    /\ pc = "get"
    /\ LET getMatch == GetMatch(out.request.path)
           svg == getChart(out.bucket, getMatch.chartType, getMatch.id)
       IN  IF ~svg.has THEN Respond(jsonResponse(404, JsonError("Chart not found")))
           ELSE Respond(svgResponse(svg.val))

\* await request.json(): 400 when it rejects, else generateChart is entered
FetchJson ==
    /\ pc = "json"
    /\ IF ~out.request.json
       THEN Respond(jsonResponse(400, ErrorBody(out.request.entry, "Invalid JSON body")))
       ELSE /\ pc' = "call"
            /\ req' = Call("service", ROUTES(out.request.path), out.request.body)
            /\ UNCHANGED <<payload, series, layout, geom, result, args, out>>

\* POST: return svgResponse(svg)
FetchPost ==
    /\ pc = "done"
    /\ out.request.method = "POST"
    /\ Respond(svgResponse(result))

\* PUT: saveChart up to the await of bucket.put, which stores the object
FetchSave ==
    /\ pc = "done"
    /\ out.request.method = "PUT"
    /\ pc' = "put"
    /\ LET saved == saveChart(out.bucket, req.kind, result, BaseUrl,
                              MaxObjects + out.uuids + 1, out.clock)
       IN  out' = [out EXCEPT !.bucket = saved.bucket, !.stored = saved.stored, !.uuids = @ + 1,
                              !.puts = @ \cup {[key |-> ObjectKey(req.kind, saved.stored.id),
                                                svg |-> result]}]
    /\ UNCHANGED <<req, payload, series, layout, geom, result, args>>

\* PUT: bucket.put rejects, the catch answers with the message
FetchSaveRejected ==
    /\ pc = "done"
    /\ out.request.method = "PUT"
    /\ Respond(jsonResponse(400, JsonError("put failed")))

\* PUT: saveChart returns and jsonResponse(200, stored) is sent
FetchStored ==
    /\ pc = "put"
    /\ Respond(jsonResponse(200, JsonStored(out.stored)))

\* catch (err): jsonResponse(400, message)
FetchFailed ==
    /\ pc = "failed"
    /\ Respond(jsonResponse(400, ErrorBody(out.request.entry, result.error)))

----------------------------------------------------------------------------
(* Specification SpecWorker: requests to the worker beside the purge *)

GoodSeries == <<RawSeries(<<Point(0, 1), Point(1, 2)>>)>>
GoodBody == SeriesBody(GoodSeries, DefaultDimensions, DefaultAxis, NoLegend)

\* Bodies that fail: no series, an unparsable time, no point with a number,
\* no y options (line), a width that is no number
FailingBodies ==
    {SeriesBody(<<>>, DefaultDimensions, DefaultAxis, NoLegend),
     SeriesBody(<<RawSeries(<<[t |-> [ty |-> "string", cls |-> "nan", ms |-> 0], v |-> NumValue(1)]>>)>>,
                DefaultDimensions, DefaultAxis, NoLegend),
     SeriesBody(<<RawSeries(<<[t |-> NumTime(0), v |-> NaNValue]>>)>>,
                DefaultDimensions, DefaultAxis, NoLegend),
     SeriesBody(GoodSeries, DefaultDimensions, NoAxis, NoLegend),
     SeriesBody(GoodSeries, [DefaultDimensions EXCEPT !.width = NonNumericSize], DefaultAxis, NoLegend)}

RoutePaths == {"/v1/chartgen/line/time", "/v1/chartgen/stacked-area/time"}

\* The first request of a session
FirstRequests ==
    {HttpRequest(entry, method, path, TRUE, body) :
        entry \in {"storage", "plain"}, method \in {"POST", "PUT"}, path \in RoutePaths,
        body \in {GoodBody} \cup FailingBodies}
    \cup
    {HttpRequest(entry, method, path, FALSE, GoodBody) :
        entry \in {"storage", "plain"}, method \in {"POST", "PUT"}, path \in RoutePaths}
    \cup
    {HttpRequest(entry, method, path, TRUE, GoodBody) :
        entry \in {"storage", "plain"}, method \in {"OPTIONS", "GET", "DELETE"},
        path \in RoutePaths \cup {"/v1/chartgen/line/time/chart_line_time_00000009-ab12",
                                  "/v1/chartgen/line/time/chart_LINE_9", "/v1/health"}}
    \cup
    {HttpRequest("storage", "POST", "/v1/health", TRUE, GoodBody)}

\* The urls the PUTs served so far returned
ReturnedUrls ==
    {out.served[k].response.body.url :
        k \in {j \in 1..Len(out.served) : out.served[j].response.body.is = "json-stored"}}

\* A later request: a GET of a returned url, or of its id under the other
\* chart type, a PUT or a POST of a line chart
LaterRequests ==
    {HttpRequest("storage", "GET", PathOf(url), TRUE, GoodBody) : url \in ReturnedUrls}
    \cup
    {HttpRequest("storage", "GET",
                 "/v1/chartgen/stacked-area/time/" \o GetMatch(PathOf(url)).id, TRUE, GoodBody) :
        url \in ReturnedUrls}
    \cup
    {HttpRequest("storage", method, "/v1/chartgen/line/time", TRUE, GoodBody) :
        method \in {"PUT", "POST"}}

\* A request arrives and fetch runs up to its first await; a session goes on
\* while its requests succeed
Receive ==
    /\ pc = "worker"
    /\ Len(out.served) < MaxRequests
    /\ \A k \in 1..Len(out.served) : out.served[k].response.status = 200
    /\ \E request \in (IF out.served = <<>> THEN FirstRequests ELSE LaterRequests) :
          FetchStart(request)

InitWorker ==
    /\ pc = "worker"
    /\ args \in [retention : {NoRetention, Retention(Some(0), "m")}]
    /\ out = Worker({}, ClockStart)
    /\ req = NoCall
    /\ payload = NoPayload
    /\ series = <<>>
    /\ layout = NoLayout
    /\ geom = NoGeom
    /\ result = NoResult

\* The cron trigger fires, and time is seen to pass, once the bucket holds a chart
ScheduledOverCharts == out.bucket # {} /\ Scheduled
ClockTickOverCharts == out.bucket # {} /\ ClockTick

NextWorker ==
    \/ Receive \/ FetchGet \/ FetchJson
    \/ GenerateChart \/ RenderValidate \/ RenderLayout \/ RenderDomain \/ RenderAssemble
    \/ FetchPost \/ FetchSave \/ FetchSaveRejected \/ FetchStored \/ FetchFailed
    \/ ScheduledOverCharts \/ PurgeListPage \/ PurgeScanObject \/ PurgeEndPage
    \/ ClockTickOverCharts

SpecWorker == InitWorker /\ [][NextWorker]_vars

----------------------------------------------------------------------------
(* Properties *)

Rendered == pc \in {"assemble", "done"}

\* The timestamps of a normalized series
TimesOf(parsed) == {parsed[i].t : i \in 1..Len(parsed)}

\* C1: the stacked layers telescope.  At every instant of the sorted union
\* timeline the first layer starts at 0, every later layer starts where the
\* one below ends, every layer ends at its start plus its own value (0 where
\* the series has no point), and the last layer ends at totals[t], which is
\* the sum of the layers' own values and is covered by the y domain.
C1_StackedLayersTelescope ==
    (Rendered /\ req.kind = "stacked-area" /\ geom.finite) =>
        LET L == geom.layers
            T == geom.times
            n == Len(L)
        IN  /\ n = Len(series)
            /\ Range(T) = UNION {TimesOf(series[k].parsed) : k \in 1..n}
            /\ \A i \in 1..(Len(T) - 1) : T[i] < T[i + 1]
            /\ Len(geom.totals) = Len(T)
            /\ \A k \in 1..n : Len(L[k].points) = Len(T)
            /\ \A i \in 1..Len(T) :
                /\ L[1].points[i].y0 = 0
                /\ \A k \in 2..n : L[k].points[i].y0 = L[k - 1].points[i].y1
                /\ \A k \in 1..n :
                    LET p == L[k].points[i]
                        own == {series[k].parsed[j].v :
                                   j \in {j \in 1..Len(series[k].parsed) : series[k].parsed[j].t = T[i]}}
                    IN  /\ p.t = T[i]
                        /\ p.y1 = p.y0 + p.value
                        /\ IF own = {} THEN p.value = 0 ELSE p.value \in own
                /\ geom.totals[i] = L[n].points[i].y1
                /\ geom.totals[i] = SeqSum([k \in 1..n |-> L[k].points[i].value])
                /\ (~(payload.y.has /\ payload.y.domain.has)) =>
                       geom.yDomain[2] >= geom.totals[i] * Unit

\* C1 witness: three layers over two instants, the middle series without a
\* point at the second instant, and a non-zero base under the top layer
C1_Witness ==
    /\ pc = "done" /\ req.kind = "stacked-area" /\ geom.finite
    /\ Len(geom.layers) = 3 /\ Len(geom.times) = 2
    /\ TimesOf(series[2].parsed) = {geom.times[1]}
    /\ geom.layers[3].points[1].y0 > 0
    /\ geom.layers[3].points[2].value > 0

\* C2 (as claimed): with step = tickStep(a, b, n), every tick of
\* linearTicks([a,b], n) is a + k * step for an integer k, lies in [a,b], and
\* the ticks ascend by exactly step.
C2_TicksOffsetFromStart ==
    (pc = "applied" /\ args.a < args.b /\ args.n >= 1) =>
        /\ \A i \in 1..Len(out.ticks) :
              /\ (out.ticks[i] - args.a) % out.step = 0
              /\ args.a <= out.ticks[i] /\ out.ticks[i] <= args.b
        /\ \A i \in 1..(Len(out.ticks) - 1) : out.ticks[i + 1] - out.ticks[i] = out.step

\* C2 (amended): every tick is k * step for an integer k, an integer multiple
\* of step whatever a is, lies in [a,b], and the ticks ascend by exactly step.
C2_TicksAreMultiplesOfStep ==
    (pc = "applied" /\ args.a < args.b /\ args.n >= 1) =>
        /\ out.step > 0
        /\ \A i \in 1..Len(out.ticks) :
              /\ out.ticks[i] % out.step = 0
              /\ args.a <= out.ticks[i] /\ out.ticks[i] <= args.b
        /\ \A i \in 1..(Len(out.ticks) - 1) : out.ticks[i + 1] - out.ticks[i] = out.step

\* C2 witness: a domain whose lower bound is no multiple of the step, with
\* at least three ticks
C2_Witness ==
    /\ pc = "applied" /\ args.a < args.b /\ args.n >= 1
    /\ Len(out.ticks) >= 3
    /\ args.a % out.step # 0

\* C3 (as claimed): a stacked-area render without a caller-supplied y.domain
\* uses a y domain whose lower bound is exactly 0 and whose upper bound is at
\* least the largest cumulative total, and equal to it when nicing is off.
C3_AreaDomainStartsAtZero ==
    (pc = "done" /\ req.kind = "stacked-area" /\ geom.finite
        /\ ~(payload.y.has /\ payload.y.domain.has)) =>
        LET yMax == SetMax(Range(geom.totals)) * Unit
            nice == IF payload.y.has THEN Coalesce(payload.y.nice, TRUE) ELSE TRUE
        IN  /\ geom.yDomain[1] = 0
            /\ geom.yDomain[2] >= yMax
            /\ (~nice => geom.yDomain[2] = yMax)

\* The legend options the orchestrator read
LegendFontSize == IF payload.legend.has THEN Coalesce(payload.legend.fontSize, 12) ELSE 12
LegendPosition == IF payload.legend.has THEN Coalesce(payload.legend.position, "top") ELSE "top"
LegendShowGiven == payload.legend.has /\ payload.legend.show.has
ConfiguredTop == Coalesce(payload.dimensions.margin.top, 28)
LaidOut == pc \in {"domain", "assemble", "done"}

\* C4 (as claimed): in both orchestrators a shown legend adds exactly
\* fontSize + 10 to the top margin when its position is "top" or unset and
\* exactly fontSize + 16 when it is "bottom"; a legend that is not shown adds 0.
C4_LegendReservation ==
    LaidOut =>
        /\ layout.legendInfo.svg =>
              layout.legendInfo.reserved =
                  LegendFontSize + (IF LegendPosition = "bottom" THEN 16 ELSE 10)
        /\ ~layout.legendInfo.svg => layout.legendInfo.reserved = 0
        /\ layout.margin.top = ConfiguredTop + layout.legendInfo.reserved

\* C5: without a legend.show override the top margin exceeds the configured
\* (or default 28) top margin exactly when more than one series is rendered,
\* the data-legend group is in the SVG in exactly that case, and the scales
\* and the plot size are computed from the margin that holds the reservation.
C5_LegendOnlyForSeveralSeries ==
    (LaidOut /\ ~LegendShowGiven) =>
        /\ (layout.margin.top > ConfiguredTop) <=> (Len(series) > 1)
        /\ layout.margin.top = ConfiguredTop + layout.legendInfo.reserved
        /\ pc \in {"assemble", "done"} =>
              /\ geom.scale.yRange[2] = ConfiguredTop + layout.legendInfo.reserved
              /\ geom.scale.plotHeight =
                    layout.height - (ConfiguredTop + layout.legendInfo.reserved)
                        - layout.margin.bottom
        /\ pc = "done" => (result.legend <=> (Len(series) > 1))

\* C5 witness: two series rendered out of three given, no legend.show, and
\* the SVG holds the legend above a raised top margin
C5_Witness ==
    /\ pc = "done" /\ ~LegendShowGiven
    /\ Len(payload.series) = 3 /\ Len(series) = 2
    /\ result.legend
    /\ layout.margin.top > ConfiguredTop

\* C10 (as claimed): every successful render has a positive plot area,
\* width - left - right > 0 and height - top - bottom > 0, the top margin
\* holding the legend reservation.
C10_PlotAreaPositive ==
    pc = "done" =>
        /\ layout.width - layout.margin.left - layout.margin.right > 0
        /\ layout.height - layout.margin.top - layout.margin.bottom > 0

Finished == pc \in {"done", "failed"}
\* The renderer was entered and handed a series array
RendererEntered == pc # "call" /\ payload # NoPayload /\ payload.seriesKey = "array"

GivenPoints == {<<i, j>> \in (1..MaxSeries + 1) \X (1..MaxTime + 2) :
                   i <= Len(payload.series) /\ j <= Len(payload.series[i].data)}
GivenPoint(ij) == payload.series[ij[1]].data[ij[2]]

\* C6 (as claimed): a render fails with InvalidDate whenever the time field
\* of some point does not resolve to a finite instant (an unparsable string,
\* a NaN or infinite number, an invalid Date), so no SVG comes of it.
C6_NonFiniteTimeIsInvalidDate ==
    (Finished /\ RendererEntered /\ \E ij \in GivenPoints : GivenPoint(ij).t.cls # "fin") =>
        (result.kind = "error" /\ result.error = "InvalidDate")

\* The body takes the legacy branch of normalizeLinePayload/normalizeAreaPayload
LegacyBranch ==
    req.via = "service" /\ req.body.seriesKey = "absent" /\ req.body.legacyKey # "absent"

\* The series of the request is missing, is no array, or is an empty array
SeriesMissingOrEmpty ==
    IF LegacyBranch THEN req.body.legacyKey # "array" \/ Len(req.body.legacy) = 0
    ELSE req.body.seriesKey # "array" \/ Len(req.body.series) = 0

SizesNumeric == req.body.dimensions.width.cls # "nan" /\ req.body.dimensions.height.cls # "nan"

\* C7 (as claimed): a call whose series is missing, no array or empty fails
\* with EmptyInput, for both chart types, called directly or through
\* generateChart, legacy bodies with no entries included.
C7_EmptySeriesIsEmptyInput ==
    (Finished /\ SeriesMissingOrEmpty) =>
        (result.kind = "error" /\ result.error = "EmptyInput")

\* C7 (amended): such a call always fails and returns no SVG.  The error is
\* EmptyInput when the renderer is called directly and for legacy bodies;
\* for the other bodies generateChart checks the sizes first
\* (InvalidDimensions) and, on the line route, the y options before the
\* renderer sees an empty array (MissingAxisConfig).
C7_EmptySeriesFails ==
    (Finished /\ SeriesMissingOrEmpty) =>
        /\ result.kind = "error"
        /\ result.error =
              IF req.via = "service" /\ ~LegacyBranch /\ ~SizesNumeric THEN "InvalidDimensions"
              ELSE IF req.via = "service" /\ ~LegacyBranch /\ req.kind = "line"
                      /\ req.body.seriesKey = "array" /\ ~req.body.y.has
                   THEN "MissingAxisConfig"
              ELSE "EmptyInput"

\* C7 witness: generateChart passed an empty series array on to the renderer,
\* which threw EmptyInput
C7_Witness ==
    /\ pc = "failed" /\ req.via = "service" /\ SeriesMissingOrEmpty
    /\ payload # NoPayload
    /\ result.error = "EmptyInput"

\* Occurrences of the parsed point (t, v) among the given finite-valued
\* points of series i, and in a normalized series
GivenCount(i, t, v) ==
    Cardinality({j \in 1..Len(payload.series[i].data) :
        LET p == payload.series[i].data[j]
        IN  ToNumber(p.v).cls = "fin" /\ parseDate(p.t).ms = t /\ ToNumber(p.v).n = v})
ParsedCount(parsed, t, v) ==
    Cardinality({j \in 1..Len(parsed) : parsed[j].t = t /\ parsed[j].v = v})

\* C8: given a non-empty series array whose time fields all parse, the
\* points without a finite value are dropped, the series left without a
\* point are dropped, the render fails with NoValidPoints exactly when no
\* series keeps a point, and otherwise goes on with exactly the series that
\* keep a point, in input order, each sorted ascending by time.
C8_DropAndSort ==
    (RendererEntered /\ pc # "render" /\ Len(payload.series) > 0
        /\ \A ij \in GivenPoints : GivenPoint(ij).t.cls = "fin") =>
        LET keeps(i) == \E j \in 1..Len(payload.series[i].data) :
                            ToNumber(payload.series[i].data[j].v).cls = "fin"
            kept == {i \in 1..Len(payload.series) : keeps(i)}
        IN  /\ (result.error = "NoValidPoints") <=> (kept = {})
            /\ kept = {} => pc = "failed"
            /\ kept # {} =>
                /\ result.error \notin {"EmptyInput", "InvalidDate"}
                /\ Len(series) = Cardinality(kept)
                /\ {series[k].idx + 1 : k \in 1..Len(series)} = kept
                /\ \A k \in 1..(Len(series) - 1) : series[k].idx < series[k + 1].idx
                /\ \A k \in 1..Len(series) :
                    LET parsed == series[k].parsed
                    IN  /\ Len(parsed) > 0
                        /\ \A j \in 1..(Len(parsed) - 1) : parsed[j].t <= parsed[j + 1].t
                        /\ \A t \in 0..MaxTime, v \in 0..3 :
                              ParsedCount(parsed, t, v) = GivenCount(series[k].idx + 1, t, v)
                        /\ \A j \in 1..Len(parsed) :
                              parsed[j].t \in 0..MaxTime /\ parsed[j].v \in 0..3

\* C8 witness: of three series the first is written out of order and kept,
\* the second is dropped, the third is kept, and the render completes
C8_Witness ==
    /\ pc = "done" /\ RendererEntered
    /\ Len(payload.series) = 3 /\ Len(series) = 2
    /\ series[1].idx = 0 /\ series[2].idx = 2
    /\ Len(payload.series[1].data) = 2
    /\ payload.series[1].data[1].t.ms > payload.series[1].data[2].t.ms
    /\ payload.series[2].data # <<>>

\* C9 (as claimed): a line chart with a non-empty, valid series array and
\* no y options fails with MissingAxisConfig, through generateChart and when
\* renderLineChart is called directly.
C9_LineWithoutYIsMissingAxisConfig ==
    (Finished /\ req.kind = "line" /\ ~req.body.y.has
        /\ req.body.seriesKey = "array" /\ SizesNumeric
        /\ (\E i \in 1..Len(req.body.series) : \E j \in 1..Len(req.body.series[i].data) :
              ToNumber(req.body.series[i].data[j].v).cls = "fin")
        /\ (\A i \in 1..Len(req.body.series) : \A j \in 1..Len(req.body.series[i].data) :
              req.body.series[i].data[j].t.cls = "fin")) =>
        (result.kind = "error" /\ result.error = "MissingAxisConfig")

\* The whole number nearest to the fixed-point number v, halves going up
Nearest(v) == CHOOSE r \in (-10)..1000 : 2 * r * Unit - Unit <= 2 * v /\ 2 * v < 2 * r * Unit + Unit
\* The size the caller asked for, raised to 100, or the default when the
\* request has none (absent, zero, NaN)
ExpectedSize(size, dflt) ==
    IF size.cls = "fin" /\ size.val # 0 THEN Max2(100, Nearest(size.val)) ELSE dflt

\* C11: every successful render returns a whole width and height of at least
\* 100, the requested value rounded, raised to 100 when smaller, 800 by 400
\* when zero or absent, and the root <svg> carries exactly the returned
\* values in width, height and viewBox "0 0 width height".
C11_SizesRoundedClampedCarried ==
    pc = "done" =>
        /\ result.width = ExpectedSize(req.body.dimensions.width, 800)
        /\ result.height = ExpectedSize(req.body.dimensions.height, 400)
        /\ result.width >= 100 /\ result.height >= 100
        /\ result.root.width = result.width
        /\ result.root.height = result.height
        /\ result.root.viewBox = <<0, 0, result.width, result.height>>

\* C11 witness: a width of 100.5 is returned as 101, a height below 100 as 100
C11_Witness ==
    /\ pc = "done"
    /\ req.body.dimensions.width = [cls |-> "fin", val |-> 100 * Unit + 50]
    /\ req.body.dimensions.height = [cls |-> "fin", val |-> -5 * Unit]
    /\ result.width = 101 /\ result.height = 100
    /\ result.root.viewBox = <<0, 0, 101, 100>>

\* step0 = |stop - start| / max(1, count) of the applied call, as a fraction
RawNum == Abs(args.b - args.a)
RawDen == Unit * Max2(1, args.n)
Powers == (-4)..3
\* p = floor(log10(step0)): 10^p <= step0 < 10^(p+1)
IsPower(p) ==
    IF p >= 0 THEN Pow10(p) * RawDen <= RawNum /\ RawNum < Pow10(p + 1) * RawDen
    ELSE RawDen <= RawNum * Pow10(-p) /\ RawNum * Pow10(-p) < 10 * RawDen
\* error = step0 / 10^p, as a fraction
ErrNum(p) == IF p < 0 THEN RawNum * Pow10(-p) ELSE RawNum
ErrDen(p) == IF p > 0 THEN RawDen * Pow10(p) ELSE RawDen
\* The step returned is m * 10^p * sign(stop - start)
StepIs(m, p) ==
    out.step * (IF p < 0 THEN Pow10(-p) ELSE 1) =
        m * Unit * (IF p > 0 THEN Pow10(p) ELSE 1) * Sign(args.b - args.a)
Mantissas == {1, 2, 5, 10}

\* C12 (as claimed): for start # stop, tickStep(start, stop, count) is
\* m * 10^power * sign(stop - start) with m the smallest of 1, 2, 5, 10 that
\* is >= error.
C12_StepSnapsUp ==
    (pc = "applied" /\ args.a # args.b) =>
        \E p \in Powers :
            /\ IsPower(p)
            /\ LET m == SetMin({x \in Mantissas : x * ErrDen(p) >= ErrNum(p)})
               IN  StepIs(m, p)

\* C12 (amended): the step is m * 10^power * sign(stop - start) with m the
\* element of 1, 2, 5, 10 picked by the thresholds sqrt(2), sqrt(10),
\* sqrt(50): m is at least the upper element of a neighbouring pair when
\* error^2 reaches their product, and at most the lower element otherwise.
C12_StepSnapsByGeometricMean ==
    (pc = "applied" /\ args.a # args.b) =>
        \E p \in Powers : \E m \in Mantissas :
            /\ IsPower(p)
            /\ StepIs(m, p)
            /\ \A pair \in {<<1, 2>>, <<2, 5>>, <<5, 10>>} :
                  IF ErrNum(p) * ErrNum(p) >= pair[1] * pair[2] * ErrDen(p) * ErrDen(p)
                  THEN m >= pair[2] ELSE m <= pair[1]

\* C12 witness: a descending domain whose error lies strictly between a
\* mantissa and the next threshold, so that the step is snapped down
C12_Witness ==
    /\ pc = "applied" /\ args.a > args.b /\ out.step < 0
    /\ \E p \in Powers : \E m \in Mantissas :
          IsPower(p) /\ StepIs(m, p) /\ m * ErrDen(p) < ErrNum(p)

UnitAuto == ~args.axis.unit.has \/ args.axis.unit.val = "auto"
\* The score of candidate k for the applied call
ScoreOf(k) == Score(SpanMs(args.start, args.stop), Candidates[k], out.desiredCount)

\* C13: with the unit not pinned the interval is the (unit, step) candidate
\* of least score |span / (unitLength * step) - desiredCount|, and of the
\* candidates of that least score the first in the order year, month, week,
\* day, hour, minute, second, millisecond and, within a unit, in step order.
C13_FirstBestInterval ==
    (pc = "applied" /\ UnitAuto) =>
        \E k \in 1..Len(Candidates) :
            /\ Candidates[k] = out.interval
            /\ \A j \in 1..Len(Candidates) : ~ScoreLess(ScoreOf(j), ScoreOf(k))
            /\ \A j \in 1..(k - 1) : ScoreLess(ScoreOf(k), ScoreOf(j))

\* C13 witness: a six-hour span with four ticks desired scores 2 both for
\* (hour, 1) and for (hour, 3); the first of the two is returned
C13_Witness ==
    /\ pc = "applied" /\ UnitAuto
    /\ out.interval = [unit |-> "hour", step |-> 1]
    /\ \E j \in 1..Len(Candidates) :
          /\ Candidates[j] = [unit |-> "hour", step |-> 3]
          /\ \E k \in 1..(j - 1) :
                /\ Candidates[k] = out.interval
                /\ ~ScoreLess(ScoreOf(j), ScoreOf(k)) /\ ~ScoreLess(ScoreOf(k), ScoreOf(j))

\* C14: for start <= stop, any unit and any plot width, the ticks are a
\* non-empty, strictly ascending list of instants within
\* [start - 1ms, stop + 1ms]; they are the single instant start unless they
\* are instants aligned to the interval, so that a window without an aligned
\* instant yields exactly <<start>>.
C14_TicksNonEmptyAscendingInWindow ==
    (pc = "applied" /\ NotAfter(args.start, args.stop)) =>
        /\ Len(out.ticks) >= 1
        /\ \A i \in 1..(Len(out.ticks) - 1) : Before(out.ticks[i], out.ticks[i + 1])
        /\ \A i \in 1..Len(out.ticks) :
              /\ NotAfter(PlusMs(args.start, -1), out.ticks[i])
              /\ NotAfter(out.ticks[i], PlusMs(args.stop, 1))
        /\ \/ out.ticks = <<args.start>>
           \/ \A i \in 1..Len(out.ticks) :
                 floorDate(out.ticks[i], out.interval.unit, out.interval.step) = out.ticks[i]

\* C14 witness: a pinned year over a domain inside February 2024 has no
\* aligned instant in the window, and the single tick is the domain start
C14_Witness ==
    /\ pc = "applied" /\ Before(args.start, args.stop)
    /\ args.axis.unit = Some("year")
    /\ out.ticks = <<args.start>>
    /\ floorDate(args.start, "year", 1) # args.start

\* C15: the desired count is axis.tickCount, unclamped, when the caller
\* gives one, and otherwise round(plotWidth / 90) clamped into [3, 60] (the
\* width being 720 when undefined); a pinned unit is used with step 1
\* whatever the desired count.
C15_DesiredCountAndPinnedStep ==
    pc = "applied" =>
        /\ args.axis.tickCount.has => out.desiredCount = args.axis.tickCount.val
        /\ ~args.axis.tickCount.has =>
              \E r \in (-1)..100 :
                  /\ LET w == Coalesce(args.plotWidth, 720)
                     IN  180 * r - 90 <= 2 * w /\ 2 * w < 180 * r + 90
                  /\ out.desiredCount = (IF r < 3 THEN 3 ELSE IF r > 60 THEN 60 ELSE r)
        /\ ~UnitAuto => out.interval = [unit |-> args.axis.unit.val, step |-> 1]

\* C15 witness: a caller's tick count of 1, below the clamp, is kept, and the
\* pinned unit steps by 1
C15_Witness ==
    /\ pc = "applied"
    /\ args.axis.tickCount = Some(1) /\ args.plotWidth = Some(728)
    /\ ~UnitAuto
    /\ out.desiredCount = 1 /\ out.interval.step = 1

----------------------------------------------------------------------------

\* The M and L commands of a path
Draws(path) == SelectSeq(path, LAMBDA c : c.op \in {"M", "L"})

\* A closed outline of the points: a single M, the top boundary (y1) in
\* forward order, the bottom boundary (y0) in reverse order, then Z
ClosedOutline(path, points) ==
    LET n == Len(points)
    IN  /\ Len(path) = 2 * n + 1
        /\ path[Len(path)].op = "Z"
        /\ Len(Draws(path)) = 2 * n
        /\ \A i \in 1..n :
              /\ path[i] = Cmd(IF i = 1 THEN "M" ELSE "L", points[i].x, points[i].y1)
              /\ path[n + i] = Cmd("L", points[n + 1 - i].x, points[n + 1 - i].y0)

\* C16 as stated: for any sequence of points given to areaPath, the path ends
\* in Z and holds exactly 2 x pointCount M/L commands, the top boundary (y1)
\* forward after a single M, then the bottom boundary (y0) in reverse as L
C16_AreaPathClosedForAnyPoints ==
    pc = "applied" => ClosedOutline(out.area, args)

\* C16, amended: for any non-empty sequence of points areaPath returns the
\* closed outline (ends in Z, 2 x pointCount M/L commands, top boundary forward
\* after a single M, bottom boundary in reverse as L); for the empty sequence
\* it returns the empty string
C16_AreaPathClosedForNonEmptyPoints ==
    pc = "applied" =>
        /\ (Len(args) > 0 => ClosedOutline(out.area, args))
        /\ (Len(args) = 0 => out.area = <<>>)

C16_Witness ==
    /\ pc = "applied"
    /\ Len(args) = 3
    /\ args[1].x = 0 /\ args[3].x = 1 /\ args[1].y0 # args[3].y0
    /\ Len(out.area) = 7

----------------------------------------------------------------------------

\* A scale built by createLinearScale divides by a non-zero number, gives a
\* finite pixel for the inputs probed, and maps d0 to rangeLow and, when the
\* domain is not degenerate, d1 to rangeHigh
ScaleProbes(domain) == {domain[1], domain[2], domain[1] - 1, domain[2] + 1, 0}
ScaleSound(domain, range) ==
    LET scale == createLinearScale(domain, range)
    IN  /\ scale.den # 0
        /\ domain[1] = domain[2] => scale.den = 1
        /\ \A v \in ScaleProbes(domain) : FiniteFrac(ScaleValue(scale, v))
        /\ FracIs(ScaleValue(scale, domain[1]), range[1])
        /\ domain[1] # domain[2] => FracIs(ScaleValue(scale, domain[2]), range[2])

\* Every coordinate of a drawn path is a finite number
FinitePath(path) ==
    \A i \in 1..Len(path) :
        path[i].op \in {"M", "L"} => FiniteFrac(path[i].x) /\ FiniteFrac(path[i].y)

\* C17: createLinearScale never divides by zero: for a degenerate domain
\* (d0 = d1) the denominator is 1, every finite input gets a finite pixel and
\* d0 maps to rangeLow; otherwise d0 maps to rangeLow and d1 to rangeHigh.  So
\* a stacked-area render whose points all share one timestamp draws, for every
\* layer, a non-empty path of finite coordinates.
C17_ScaleNeverDividesByZero ==
    (pc = "done" /\ geom.finite) =>
        /\ ScaleSound(<<geom.xMin, geom.xMax>>, geom.scale.xRange)
        /\ ScaleSound(geom.yDomain, geom.scale.yRange)
        /\ (req.kind = "stacked-area" /\ Len(geom.times) = 1) =>
              \A k \in 1..Len(result.paths) :
                  /\ result.paths[k].path # <<>>
                  /\ FinitePath(result.paths[k].path)
                  /\ FinitePath(result.paths[k].stroke)
                  /\ FracIs(result.paths[k].path[1].x, geom.scale.xRange[1])

C17_Witness ==
    /\ pc = "done" /\ geom.finite
    /\ req.kind = "stacked-area"
    /\ Len(geom.times) = 1 /\ geom.xMin = geom.xMax
    /\ Len(result.paths) = 2
    /\ Len(result.paths[2].path) = 3
    /\ geom.layers[2].points[1].y0 > 0

----------------------------------------------------------------------------

\* The text written for a string the request holds is its XML-escaped form
EscapedWhenGiven(written, given) == given # "" => written = escapeXml(given)

\* C18 as stated: every user-supplied string written into the svg (title,
\* description, axis labels, series ids/names, series colors, background,
\* grid color, axis and tick colors, font families) appears there only after
\* XML-escaping
C18_UserStringsEscaped ==
    pc = "done" =>
        LET text == payload.text
            m == result.markup
        IN  /\ EscapedWhenGiven(m.title, text.title)
            /\ EscapedWhenGiven(m.ariaLabel, text.title)
            /\ EscapedWhenGiven(m.desc, text.description)
            /\ EscapedWhenGiven(m.xLabel, text.xLabel)
            /\ EscapedWhenGiven(m.yLabel, text.yLabel)
            /\ EscapedWhenGiven(m.background, text.background)
            /\ (m.gridColor # "" => EscapedWhenGiven(m.gridColor, text.gridColor))
            /\ EscapedWhenGiven(m.axisColor, text.axisColor)
            /\ EscapedWhenGiven(m.tickColor, text.tickColor)
            /\ EscapedWhenGiven(m.fontFamily, text.fontFamily)
            /\ \A k \in 1..Len(m.legend) :
                  /\ m.legend[k].label = escapeXml(OrDefault(series[k].name, series[k].id))
                  /\ m.legend[k].fill = escapeXml(series[k].color)
                  /\ EscapedWhenGiven(m.legend[k].fontFamily, text.legendFontFamily)
            /\ \A k \in 1..Len(result.paths) :
                  result.paths[k].color = escapeXml(series[k].color)


----------------------------------------------------------------------------

\* The calls of the session that have returned or thrown, each with its
\* request as the caller wrote it
SessionOutcomes ==
    {[request |-> out.log[i].request, result |-> out.log[i].result] : i \in 1..Len(out.log)}
    \cup (IF pc \in {"done", "failed"} THEN {[request |-> out.given, result |-> result]} ELSE {})

----------------------------------------------------------------------------

\* The place, counted from 0, that the k-th drawn series has in the series
\* array of the request, read off its point
PlaceInRequest(k) == series[k].parsed[1].v - 1

\* The color the request asks for at place i: its own, else palette entry i mod 8
AskedColor(i) ==
    LET given == req.body.series[i + 1].color
    IN  IF given # "" THEN given ELSE DEFAULT_COLORS[(i % 8) + 1]

\* C20: a series without a color is drawn, path and legend swatch alike, with
\* the palette entry (i mod 8) where i is its index in the original series
\* array of the request, whatever series were dropped before it; a supplied
\* color is kept
C20_PaletteByOriginalIndex ==
    pc = "done" =>
        /\ Len(result.paths) = Len(series)
        /\ Len(result.markup.legend) = Len(series)
        /\ \A k \in 1..Len(series) :
              /\ result.paths[k].color = AskedColor(PlaceInRequest(k))
              /\ result.markup.legend[k].fill = AskedColor(PlaceInRequest(k))

C20_Witness ==
    /\ pc = "done"
    /\ Len(req.body.series[2].data) = 0
    /\ Len(series) = PaletteSeries - 1
    /\ PlaceInRequest(8) = 8 /\ PlaceInRequest(9) = 9
    /\ req.body.series[4].color = "red"
    /\ result.paths[3].color = "red"
    /\ result.paths[8].color = "#2563eb"
    /\ result.markup.legend[9].fill = "#ef4444"

----------------------------------------------------------------------------

\* The values the orchestrator hands to computeYDomain, in fixed point:
\* every point value (line), 0 and the largest total (stacked-area)
DomainValues ==
    IF req.kind = "line"
    THEN UNION {{series[k].parsed[i].v * Unit : i \in 1..Len(series[k].parsed)} :
                   k \in 1..Len(series)}
    ELSE {0, SetMax(Range(geom.totals)) * Unit}

\* A finished render whose values are all one number
FlatChart == pc = "done" /\ geom.finite /\ Cardinality(DomainValues) = 1
FlatValue == CHOOSE a \in DomainValues : TRUE
TickCountRead == IF payload.y.has THEN Coalesce(payload.y.tickCount, 6) ELSE 6

----------------------------------------------------------------------------

\* The bounds computeYDomain starts from: the override or the extent of the values
DomainInput ==
    LET dom == IF payload.y.has THEN payload.y.domain ELSE None
    IN  <<IF dom.has THEN dom.val[1] ELSE SetMin(DomainValues),
          IF dom.has THEN dom.val[2] ELSE SetMax(DomainValues)>>

NiceRead == IF payload.y.has THEN Coalesce(payload.y.nice, TRUE) ELSE TRUE

\* A finished render with nicing enabled over bounds min < max
NicedChart ==
    /\ pc = "done"
    /\ geom.finite
    /\ NiceRead
    /\ DomainInput[1] < DomainInput[2]

\* C24: with nicing enabled and the same tick count, the step linearTicks
\* uses over the niced domain equals the step niceLinearDomain rounded the
\* bounds with, so the lowest and the highest y tick are the lower and the
\* upper bound of the y domain, for every input domain with min < max
C24_TicksSpanNicedDomain ==
    NicedChart =>
        /\ tickStep(geom.yDomain[1], geom.yDomain[2], TickCountRead)
              = tickStep(DomainInput[1], DomainInput[2], TickCountRead)
        /\ Len(geom.yTicks) > 0
        /\ geom.yTicks[1] = geom.yDomain[1]
        /\ geom.yTicks[Len(geom.yTicks)] = geom.yDomain[2]

----------------------------------------------------------------------------

\* The loop of timeTicks has been left after at least one iteration
LoopLeft == pc = "applied" /\ out.iterations > 0

\* C25: for every time domain the orchestrators can pass once parseDate has
\* accepted the time fields (non-finite numbers included) and for every
\* unit and step, the tick loop of timeTicks terminates because each
\* iteration moves the current instant forward until it exceeds stop + 1ms:
\* a loop that ran is left with current beyond stop + 1ms
C25_LoopEndsPastStop ==
    LoopLeft =>
        /\ out.current.valid
        /\ args.stop.cls = "fin"
        /\ Before(PlusMs(args.stop.at, 1), out.current.at)

----------------------------------------------------------------------------

\* deleteChartsOlderThan has returned
PurgeReturned == out.purge.at = "returned"

\* The upload time of the object is known and now - uploaded > maxAgeMs
PastRetention(object) ==
    object.uploaded.has /\ out.purge.now - object.uploaded.val > out.purge.maxAgeMs

\* C22: when deleteChartsOlderThan(bucket, maxAgeMs) completes, every listed
\* object whose upload time is known and whose age now - uploaded is
\* strictly greater than maxAgeMs has been deleted, no object of age
\* <= maxAgeMs or of unknown upload time has been deleted, every page up to
\* the first non-truncated one has been visited, and deleted <= scanned with
\* scanned the number of objects listed
C22_PurgeDeletesExactlyTheOld ==
    PurgeReturned =>
        LET purge == out.purge
            pages == Len(purge.truncations)
        IN  /\ \A o \in purge.listed :
                  PastRetention(o) => o.key \in purge.removed /\ BucketGet(out.bucket, o.key) = None
            /\ \A o \in purge.listed :
                  ~PastRetention(o) => o.key \notin purge.removed /\ o \in out.bucket
            /\ purge.removed \subseteq {o.key : o \in purge.listed}
            /\ pages >= 1
            /\ ~purge.truncations[pages]
            /\ \A k \in 1..(pages - 1) : purge.truncations[k]
            /\ purge.before \subseteq purge.listed
            /\ purge.deleted <= purge.scanned
            /\ purge.scanned = Cardinality(purge.listed)
            /\ purge.deleted = Cardinality(purge.removed)

\* A purge over two pages that deleted an object, kept one exactly maxAgeMs
\* old, kept one without an upload time, and met a chart saved meanwhile
C22_Witness ==
    /\ PurgeReturned
    /\ Len(out.purge.truncations) = 2
    /\ out.purge.deleted = 1
    /\ \E o \in out.purge.listed : PastRetention(o)
    /\ \E o \in out.purge.listed :
          o.uploaded.has /\ out.purge.now - o.uploaded.val = out.purge.maxAgeMs /\ o \in out.bucket
    /\ \E o \in out.purge.listed : ~o.uploaded.has /\ o \in out.bucket
    /\ out.uuids > 0

----------------------------------------------------------------------------

\* The k-th request served was a POST or PUT to a chart route of a handler
\* that takes the method
ChartRequestServed(k) ==
    LET request == out.served[k].request
    IN  /\ request.method \in {"POST", "PUT"}
        /\ request.entry = "plain" => request.method = "POST"
        /\ request.path \in RoutePaths

\* Its payload is JSON that fails validation or rendering
PayloadFails(request) ==
    /\ request.json
    /\ request.body \in FailingBodies
    /\ ~request.body.y.has => ROUTES(request.path) = "line"

PutsBefore(k) == IF k = 1 THEN {} ELSE out.served[k - 1].puts

\* C23: every POST or PUT whose payload fails validation or rendering is
\* answered with status 400 and a JSON error body, never with a 200 SVG
\* response, and for PUT nothing is written to the bucket; a 200 response
\* from PUT implies that the SVG was stored before the response was produced
C23_FailuresAnswered400 ==
    \A k \in 1..Len(out.served) :
        LET request == out.served[k].request
            response == out.served[k].response
        IN  ChartRequestServed(k) =>
                /\ PayloadFails(request) =>
                      /\ response.status = 400
                      /\ response.contentType = "application/json"
                      /\ response.body.is \in {"json-error", "json-string"}
                      /\ out.served[k].puts = PutsBefore(k)
                /\ request.method = "PUT" /\ response.status = 200 =>
                      /\ response.body.is = "json-stored"
                      /\ out.served[k].rendered.kind = "svg"
                      /\ [key |-> ObjectKey(ROUTES(request.path), response.body.id),
                          svg |-> out.served[k].rendered] \in out.served[k].puts \ PutsBefore(k)

\* A PUT of a line chart without y options was answered 400 with the
\* MissingAxisConfig message and nothing was put
C23_Witness ==
    /\ Len(out.served) = 1
    /\ out.served[1].request.method = "PUT"
    /\ out.served[1].request.entry = "storage"
    /\ PayloadFails(out.served[1].request)
    /\ out.served[1].response = jsonResponse(400, JsonError("MissingAxisConfig"))
    /\ out.served[1].puts = {}
    /\ out.bucket = {}

----------------------------------------------------------------------------

\* The k-th request served was a PUT that succeeded
PutSucceeded(k) ==
    /\ out.served[k].request.method = "PUT"
    /\ out.served[k].response.status = 200
    /\ out.served[k].response.body.is = "json-stored"

====
